---- MODULE Spec2Model ----
(***************************************************************************)
(* Model of the agents-mcp-server discovery registry: the RegistryManager  *)
(* store (agents_mcp_server/core/registry_manager.py) and the             *)
(* find_a2a_agents tool (agents_mcp_server/core/tools/find_a2a_agents.py). *)
(*                                                                         *)
(* Python values are modelled as follows.                                  *)
(*   - str: a TLA+ string; f"{a}:{b}" is string concatenation.             *)
(*   - Optional[T]: a sequence of length at most one, None being << >>.    *)
(*   - dict: a sequence of [key, val] entries in insertion order, with     *)
(*     pairwise distinct keys (Python dicts iterate in insertion order).   *)
(***************************************************************************)
EXTENDS Integers, Sequences, FiniteSets, TLC

VARIABLES
    mcp_servers,    \* RegistryManager._mcp_servers
    agent_cards,    \* RegistryManager._agent_cards
    seenIds,        \* history: ids passed to register_mcp_server so far
    history,        \* history: facts about the calls made so far
    ret,            \* the last call and what it returned
    lock,           \* RegistryManager._lock, a threading.RLock
    pc,             \* where each thread is in the method it runs
    wframe,         \* locals of the thread that registers and unregisters
    rframe,         \* locals of the thread that reads
    lframe,         \* locals of the thread that loads a directory
    boundary,       \* history: the collections when the last mutating call returned
    heap,           \* the AgentCard objects constructed so far, by reference
    held,           \* the references a caller got from the store's reads
    loadcall,       \* the last load_agent_cards_from_directory call and its result
    findcall,       \* the last find_a2a_agents call and its result
    toolcall        \* the last call of another tool or resource and its result

storeVars == <<mcp_servers, seenIds, history, ret>>

threadVars == <<lock, pc, wframe, rframe, lframe, boundary>>

objectVars == <<heap, held>>

loadVars == <<loadcall>>

findVars == <<findcall>>

toolVars == <<toolcall>>

\* What the actions of each specification leave alone.
restOfStore == <<threadVars, objectVars, loadVars, findVars, toolVars>>

restOfThreads == <<seenIds, history, ret, objectVars, loadVars, findVars, toolVars>>

restOfObjects == <<mcp_servers, seenIds, history, ret, threadVars, loadVars, findVars,
                  toolVars>>

restOfLoad == <<mcp_servers, seenIds, history, ret, threadVars, objectVars, findVars,
               toolVars>>

restOfFind == <<mcp_servers, agent_cards, seenIds, history, ret, threadVars, objectVars,
               loadVars, toolVars>>

restOfTool == <<mcp_servers, agent_cards, seenIds, history, ret, threadVars, objectVars,
               loadVars, findVars>>

vars == <<mcp_servers, agent_cards, seenIds, history, ret,
          lock, pc, wframe, rframe, lframe, boundary, heap, held, loadcall,
          findcall, toolcall>>

(***************************************************************************)
(* Bounds of the model.                                                    *)
(***************************************************************************)
MaxEntries == 3

(***************************************************************************)
(* Python helpers.                                                         *)
(***************************************************************************)
None == << >>
Some(x) == <<x>>

\* bool(s) of a str: the empty string is falsy.
StrTruthy(s) == s # ""

\* bool(v) of an Optional[str]: None and "" are falsy.
OptStrTruthy(v) == v # None /\ StrTruthy(v[1])

\* v is not None
IsNotNone(v) == v # None

\* f"{a}:{b}"
Composite(a, b) == a \o ":" \o b

\* key in d
DictHas(d, k) == \E i \in 1..Len(d) : d[i].key = k

\* d.get(k)
DictGet(d, k) ==
    IF DictHas(d, k)
    THEN Some((CHOOSE e \in {d[i] : i \in 1..Len(d)} : e.key = k).val)
    ELSE None

\* del d[k]: the other entries keep their order.
DictDel(d, k) == SelectSeq(d, LAMBDA e : e.key # k)

\* d[k] = v: an existing key keeps its position, a new key is appended.
DictSet(d, k, v) ==
    IF DictHas(d, k)
    THEN [i \in 1..Len(d) |-> IF d[i].key = k THEN [key |-> k, val |-> v] ELSE d[i]]
    ELSE Append(d, [key |-> k, val |-> v])

\* list(d.values())
DictValues(d) == [i \in 1..Len(d) |-> d[i].val]

\* The first of the indices in hits, 0 when there is none (a for loop
\* that breaks at the first entry satisfying its condition).
FirstIndex(hits) ==
    IF hits = {} THEN 0 ELSE CHOOSE i \in hits : \A j \in hits : i <= j

\* The lists of at most n pairwise distinct elements of S.
RECURSIVE DistinctLists(_, _)
DistinctLists(S, n) ==
    IF n = 0 THEN {<< >>}
    ELSE LET shorter == DistinctLists(S, n - 1)
             longest == {l \in shorter : Len(l) = n - 1}
         IN  shorter \cup
             UNION {{Append(l, x) : x \in S \ {l[i] : i \in 1..Len(l)}} : l \in longest}

(***************************************************************************)
(* The values the calls are made with.  MCPServer ids, names and versions  *)
(* are non-empty (MCPServer.not_empty); a storage key is any str.          *)
(***************************************************************************)
Server(i, v, n) == [id |-> i, version |-> v, name |-> n]

Servers ==
    { Server("a", "1", "n1"),
      Server("a", "b:1", "n2"),
      Server("a:b", "1", "n1") }

StorageKeys == {"", "a", "a:1", "k"}

LookupArgs == StorageKeys \cup {"a:b", "a:b:1", "zz"}

ServerNames == {"n1", "n2", "n3"}

(***************************************************************************)
(* RegistryManager: the MCP server collection.                             *)
(***************************************************************************)

\* The condition of the scan of register_mcp_server (line 123).
RegisterMatches(server, mcp_server) ==
    \/ server.id = mcp_server.id
    \/ Composite(server.id, server.version) = Composite(mcp_server.id, mcp_server.version)

\* The condition of the scans of unregister_mcp_server and
\* get_mcp_server_by_id (lines 145 and 169).
AttrMatches(server, server_id) ==
    \/ server.id = server_id
    \/ Composite(server.id, server.version) = server_id

\* to_delete after the scan loop of register_mcp_server (lines 121-125).
RegisterScan(d, mcp_server) ==
    LET i == FirstIndex({j \in 1..Len(d) : RegisterMatches(d[j].val, mcp_server)})
    IN  IF i = 0 THEN None ELSE Some(d[i].key)

\* "if to_delete:" (lines 126 and 148).
ShouldDelete(to_delete) == OptStrTruthy(to_delete)

\* The dict after register_mcp_server(server_id, mcp_server) (lines 119-130).
RegisterInto(d, server_id, mcp_server) ==
    LET to_delete == RegisterScan(d, mcp_server)
        d1 == IF ShouldDelete(to_delete) THEN DictDel(d, to_delete[1]) ELSE d
    IN  DictSet(d1, server_id, mcp_server)

\* to_delete after the scan loop of unregister_mcp_server (lines 143-147).
UnregisterScan(d, server_id) ==
    LET i == FirstIndex({j \in 1..Len(d) : AttrMatches(d[j].val, server_id)})
    IN  IF i = 0 THEN None ELSE Some(d[i].key)

\* The dict after unregister_mcp_server(server_id) (lines 136-152).
UnregisterFrom(d, server_id) ==
    IF DictHas(d, server_id)
    THEN DictDel(d, server_id)
    ELSE LET to_delete == UnregisterScan(d, server_id)
         IN  IF ShouldDelete(to_delete) THEN DictDel(d, to_delete[1]) ELSE d

\* The fallback scan of get_mcp_server_by_id (lines 168-173).
LookupByAttr(d, server_id) ==
    LET i == FirstIndex({j \in 1..Len(d) : AttrMatches(d[j].val, server_id)})
    IN  IF i = 0 THEN None ELSE Some(d[i].val)

\* get_mcp_server_by_id with the attribute scan tried before the direct key.
GetMcpServerByIdScanFirst(d, server_id) ==
    LET server == LookupByAttr(d, server_id)
    IN  IF IsNotNone(server) THEN server ELSE DictGet(d, server_id)

\* What get_mcp_server_by_id(server_id) returns (lines 159-173).
GetMcpServerById(d, server_id) ==
    LET server == DictGet(d, server_id)
    IN  IF IsNotNone(server) THEN server ELSE LookupByAttr(d, server_id)

\* What get_mcp_server_by_name(server_name) returns (lines 205-211).
GetMcpServerByName(d, server_name) ==
    LET i == FirstIndex({j \in 1..Len(d) : d[j].val.name = server_name})
    IN  IF i = 0 THEN None ELSE Some(d[i].val)

\* What list_mcp_servers() returns without a filter (lines 195-198).
ListMcpServers(d) == DictValues(d)

NoCall == [op |-> "none", arg |-> "", val |-> None]

(***************************************************************************)
(* The threads of the concurrent model: one registers and unregisters     *)
(* servers, one reads, one loads a directory of agent cards.               *)
(***************************************************************************)
Threads == {"w", "r", "l"}

Unlocked == [owner |-> "none", count |-> 0]

NoWrite == [op |-> "none", key |-> "", srv |-> None, to_delete |-> None]

NoRead == [op |-> "none", arg |-> "", val |-> None, committed |-> None]

NoLoad == [files |-> << >>, idx |-> 0, count |-> 0, card |-> None, returned |-> None]

ThreadsIdle ==
    /\ lock = Unlocked
    /\ pc = [t \in Threads |-> "idle"]
    /\ wframe = NoWrite
    /\ rframe = NoRead
    /\ lframe = NoLoad
    /\ boundary = [servers |-> << >>, cards |-> << >>]

InitHistory == [unregistered |-> FALSE, overwrote |-> FALSE]

register_mcp_server(server_id, mcp_server) ==
    /\ Len(RegisterInto(mcp_servers, server_id, mcp_server)) <= MaxEntries
    /\ mcp_servers' = RegisterInto(mcp_servers, server_id, mcp_server)
    /\ seenIds' = seenIds \cup {mcp_server.id}
    /\ history' =
         [history EXCEPT !.overwrote =
            @ \/ \E i \in 1..Len(mcp_servers) :
                   /\ mcp_servers[i].key = server_id
                   /\ mcp_servers[i].val.id # mcp_server.id]
    /\ ret' = NoCall
    /\ UNCHANGED <<agent_cards, restOfStore>>

unregister_mcp_server(server_id) ==
    /\ mcp_servers' = UnregisterFrom(mcp_servers, server_id)
    /\ history' = [history EXCEPT !.unregistered = TRUE]
    /\ ret' = NoCall
    /\ UNCHANGED <<seenIds, agent_cards, restOfStore>>

get_mcp_server_by_id(server_id) ==
    /\ ret' = [op |-> "get_mcp_server_by_id", arg |-> server_id,
               val |-> GetMcpServerById(mcp_servers, server_id)]
    /\ UNCHANGED <<mcp_servers, seenIds, history, agent_cards, restOfStore>>

\* RegistryManager.__init__ (lines 28-30).
ServersInit ==
    /\ mcp_servers = << >>
    /\ seenIds = {}
    /\ history = InitHistory
    /\ ret = NoCall

StoreInit ==
    /\ ServersInit
    /\ agent_cards = << >>

NoObjects ==
    /\ heap = << >>
    /\ held = {}

NoLoadCall == [dir |-> None, before |-> << >>, returned |-> None]

NoToolCall == [tool |-> "none"]

NoFindCall ==
    [query |-> << >>, filters |-> {}, filter_func |-> None, limit |-> None,
     offset |-> 0, result |-> None, raised |-> None, propagated |-> None]

Init ==
    /\ StoreInit
    /\ ThreadsIdle
    /\ NoObjects
    /\ loadcall = NoLoadCall
    /\ findcall = NoFindCall
    /\ toolcall = NoToolCall

Next ==
    \/ \E k \in StorageKeys, s \in Servers : register_mcp_server(k, s)
    \/ \E k \in LookupArgs : unregister_mcp_server(k)
    \/ \E k \in LookupArgs : get_mcp_server_by_id(k)

Spec == Init /\ [][Next]_vars

(***************************************************************************)
(* Bulk load of agent cards.  A directory is the list of its files in the *)
(* order os.listdir gives them; a file is named base + ext and has a body *)
(* which cannot be read, is no JSON, or is a JSON object with a name and a *)
(* version.                                                                *)
(***************************************************************************)
File(base, ext, kind, name, version) ==
    [base |-> base, ext |-> ext, kind |-> kind, name |-> name, version |-> version]

\* s.strip() of the strings the model uses.
Strip(s) == IF s \in {"", " ", "  "} THEN "" ELSE s

\* AgentCard.not_empty: "not v or (isinstance(v, str) and not v.strip())".
IsEmptyField(v) == ~StrTruthy(v) \/ ~StrTruthy(Strip(v))

\* filename.endswith('.json')
IsJsonFile(file) == file.ext = ".json"

\* open, read and AgentCard.model_validate_json of one file: the card, or
\* None when one of the three raises (all three are caught by the loop).
ParseAgentCard(file) ==
    IF file.kind = "unreadable" THEN None
    ELSE IF file.kind = "garbage" THEN None
    ELSE IF IsEmptyField(file.name) \/ IsEmptyField(file.version) THEN None
    ELSE Some([name |-> file.name, version |-> file.version])

\* agent_id = f"{agent_card.name}:{agent_card.version}"
AgentKey(card) == Composite(card.name, card.version)

\* The dict after register_agent_card(agent_id, agent_card) (lines 39-41).
RegisterCardInto(d, agent_id, agent_card) == DictSet(d, agent_id, agent_card)

\* What get_agent_card(agent_id) returns (lines 47-51).
GetAgentCard(d, agent_id) == DictGet(d, agent_id)

\* What list_agent_cards() returns without a filter (lines 107-110).
ListAgentCards(d) == DictValues(d)

\* One iteration of the loop of load_agent_cards_from_directory
\* (lines 227-245) on the state [cards, count].
LoadFile(st, file) ==
    IF ~IsJsonFile(file) THEN st
    ELSE LET parsed == ParseAgentCard(file)
         IN  IF parsed = None THEN st
             ELSE [cards |-> RegisterCardInto(st.cards, AgentKey(parsed[1]), parsed[1]),
                   count |-> st.count + 1]

\* The loop of load_agent_cards_from_directory stopping at the first file
\* that fails.
RECURSIVE LoadFilesUntilFailure(_, _, _)
LoadFilesUntilFailure(st, files, i) ==
    IF i > Len(files) THEN st
    ELSE IF IsJsonFile(files[i]) /\ ParseAgentCard(files[i]) = None THEN st
    ELSE LoadFilesUntilFailure(LoadFile(st, files[i]), files, i + 1)

\* The loop of load_agent_cards_from_directory from file i on (line 227).
RECURSIVE LoadFilesFrom(_, _, _)
LoadFilesFrom(st, files, i) ==
    IF i > Len(files) THEN st
    ELSE LoadFilesFrom(LoadFile(st, files[i]), files, i + 1)

\* load_agent_cards_from_directory(directory_path) on the collection d:
\* the collection and the count it returns (lines 222-247).  dir is None
\* when directory_path is no directory.
LoadAgentCardsFromDirectory(d, dir) ==
    IF dir = None
    THEN [cards |-> d, count |-> 0]
    ELSE LoadFilesFrom([cards |-> d, count |-> 0], dir[1], 1)

(***************************************************************************)
(* The load model: one load_agent_cards_from_directory call on a directory *)
(* and a collection drawn from the sets below.                             *)
(***************************************************************************)
MaxFiles == 4

LoadFileSet ==
    { File("nlp", ".json", "object", "nlp", "1"),
      File("vision", ".json", "object", "vision", "1"),
      File("nlp2", ".json", "object", "nlp", "2"),
      File("copy", ".json", "object", "nlp", "1"),
      File("bad", ".json", "garbage", "", ""),
      File("locked", ".json", "unreadable", "", ""),
      File("blank", ".json", "object", " ", "1"),
      File("notes", ".txt", "object", "other", "1") }

\* The lists of at most n distinct files: what os.listdir can give.
Listings(n) == DistinctLists(LoadFileSet, n)

\* Collections the registry can hold when the load is called.
CardStoresBefore ==
    { << >>,
      <<[key |-> "vision:1", val |-> [name |-> "vision", version |-> "1"]]>>,
      <<[key |-> "k1", val |-> [name |-> "nlp", version |-> "1"]],
        [key |-> "nlp:1", val |-> [name |-> "old", version |-> "0"]]>> }

InitLoad ==
    /\ ServersInit
    /\ ThreadsIdle
    /\ NoObjects
    /\ \E before \in CardStoresBefore, dir \in {None} \cup {Some(l) : l \in Listings(MaxFiles)} :
          /\ agent_cards = before
          /\ loadcall = [dir |-> dir, before |-> before, returned |-> None]
    /\ findcall = NoFindCall
    /\ toolcall = NoToolCall

load_agent_cards_from_directory ==
    /\ loadcall.returned = None
    /\ LET st == LoadAgentCardsFromDirectory(agent_cards, loadcall.dir)
       IN  /\ agent_cards' = st.cards
           /\ loadcall' = [loadcall EXCEPT !.returned = Some(st.count)]
    /\ UNCHANGED restOfLoad

NextLoad == load_agent_cards_from_directory

SpecLoad == InitLoad /\ [][NextLoad]_vars

(***************************************************************************)
(* The concurrent model: every method body runs between the acquisition    *)
(* and the release of the RLock ("with self._lock:"), other threads        *)
(* interleaving wherever the lock lets them.                               *)
(***************************************************************************)
ConcKeys == {"", "k", "a:1"}

ConcLookupArgs == {"a", "k", "a:b:1"}

ConcDirectories ==
    { <<File("nlp", ".json", "object", "nlp", "1"),
        File("vision", ".json", "object", "vision", "1")>>,
      <<File("bad", ".json", "garbage", "", ""),
        File("nlp", ".json", "object", "nlp", "1")>> }

\* A lock that excludes nobody.
CanAcquireAlways(t) == TRUE

\* A lock that is not reentrant: its owner waits for it like anybody else.
CanAcquireNotReentrant(t) == lock.owner = "none"

\* RLock.acquire() returns for the owner and when nobody owns the lock.
CanAcquire(t) == lock.owner \in {"none", t}

Acquired(t) == [owner |-> t, count |-> lock.count + 1]

Released(t) ==
    IF lock.count <= 1 THEN Unlocked ELSE [lock EXCEPT !.count = @ - 1]

Goto(t, label) == pc' = [pc EXCEPT ![t] = label]

\* ---- the writer thread: register_mcp_server / unregister_mcp_server ----
w_call_register(server_id, mcp_server) ==
    /\ pc["w"] = "idle"
    /\ wframe' = [op |-> "register_mcp_server", key |-> server_id,
                  srv |-> Some(mcp_server), to_delete |-> None]
    /\ Goto("w", "w_acquire")
    /\ UNCHANGED <<mcp_servers, agent_cards, restOfThreads,
                   lock, rframe, lframe, boundary>>

w_call_unregister(server_id) ==
    /\ pc["w"] = "idle"
    /\ wframe' = [op |-> "unregister_mcp_server", key |-> server_id,
                  srv |-> None, to_delete |-> None]
    /\ Goto("w", "w_acquire")
    /\ UNCHANGED <<mcp_servers, agent_cards, restOfThreads,
                   lock, rframe, lframe, boundary>>

\* with self._lock: (lines 119 and 136)
w_acquire ==
    /\ pc["w"] = "w_acquire"
    /\ CanAcquire("w")
    /\ lock' = Acquired("w")
    /\ Goto("w", IF wframe.op = "register_mcp_server" THEN "reg_scan" ELSE "unreg_body")
    /\ UNCHANGED <<mcp_servers, agent_cards, restOfThreads,
                   wframe, rframe, lframe, boundary>>

\* lines 121-125
reg_scan ==
    /\ pc["w"] = "reg_scan"
    /\ wframe' = [wframe EXCEPT !.to_delete = RegisterScan(mcp_servers, wframe.srv[1])]
    /\ Goto("w", "reg_delete")
    /\ UNCHANGED <<mcp_servers, agent_cards, restOfThreads,
                   lock, rframe, lframe, boundary>>

\* lines 126-128
reg_delete ==
    /\ pc["w"] = "reg_delete"
    /\ mcp_servers' = IF ShouldDelete(wframe.to_delete)
                      THEN DictDel(mcp_servers, wframe.to_delete[1])
                      ELSE mcp_servers
    /\ Goto("w", "reg_insert")
    /\ UNCHANGED <<agent_cards, restOfThreads,
                   lock, wframe, rframe, lframe, boundary>>

\* line 129
reg_insert ==
    /\ pc["w"] = "reg_insert"
    /\ mcp_servers' = DictSet(mcp_servers, wframe.key, wframe.srv[1])
    /\ Goto("w", "w_release")
    /\ UNCHANGED <<agent_cards, restOfThreads,
                   lock, wframe, rframe, lframe, boundary>>

\* lines 138-152
unreg_body ==
    /\ pc["w"] = "unreg_body"
    /\ mcp_servers' = UnregisterFrom(mcp_servers, wframe.key)
    /\ Goto("w", "w_release")
    /\ UNCHANGED <<agent_cards, restOfThreads,
                   lock, wframe, rframe, lframe, boundary>>

\* leaving the with block: the call returns.
w_release ==
    /\ pc["w"] = "w_release"
    /\ lock' = Released("w")
    /\ boundary' = [boundary EXCEPT !.servers = mcp_servers]
    /\ wframe' = NoWrite
    /\ Goto("w", "idle")
    /\ UNCHANGED <<mcp_servers, agent_cards, restOfThreads, rframe, lframe>>

\* ---- the reader thread: get_mcp_server_by_id, get_mcp_server_by_name,
\* ---- list_mcp_servers, list_agent_cards
ServerReadOps == {"get_mcp_server_by_id", "get_mcp_server_by_name", "list_mcp_servers"}

CardReadOps == {"get_agent_card", "list_agent_cards"}

ReadArgs(op) ==
    IF op = "get_mcp_server_by_id" THEN ConcLookupArgs
    ELSE IF op = "get_mcp_server_by_name" THEN {"n1", "n2"}
    ELSE IF op = "get_agent_card" THEN {"nlp:1", "vision:1"}
    ELSE {""}

r_call(op, arg) ==
    /\ pc["r"] = "idle"
    /\ rframe' = [op |-> op, arg |-> arg, val |-> None, committed |-> None]
    /\ Goto("r", "r_acquire")
    /\ UNCHANGED <<mcp_servers, agent_cards, restOfThreads,
                   lock, wframe, lframe, boundary>>

\* with self._lock: (lines 103, 159, 191, 205)
r_acquire ==
    /\ pc["r"] = "r_acquire"
    /\ CanAcquire("r")
    /\ lock' = Acquired("r")
    /\ Goto("r", "r_body")
    /\ UNCHANGED <<mcp_servers, agent_cards, restOfThreads,
                   wframe, rframe, lframe, boundary>>

\* The value the read computes under the lock.
ReadValue(op, arg) ==
    IF op = "get_mcp_server_by_id" THEN GetMcpServerById(mcp_servers, arg)
    ELSE IF op = "get_mcp_server_by_name" THEN GetMcpServerByName(mcp_servers, arg)
    ELSE IF op = "list_mcp_servers" THEN ListMcpServers(mcp_servers)
    ELSE IF op = "get_agent_card" THEN GetAgentCard(agent_cards, arg)
    ELSE ListAgentCards(agent_cards)

r_body ==
    /\ pc["r"] = "r_body"
    /\ rframe' = [rframe EXCEPT !.val = ReadValue(rframe.op, rframe.arg),
                                !.committed = Some(boundary)]
    /\ Goto("r", "r_release")
    /\ UNCHANGED <<mcp_servers, agent_cards, restOfThreads,
                   lock, wframe, lframe, boundary>>

\* leaving the with block: the value goes to the caller.
r_release ==
    /\ pc["r"] = "r_release"
    /\ lock' = Released("r")
    /\ rframe' = NoRead
    /\ Goto("r", "idle")
    /\ UNCHANGED <<mcp_servers, agent_cards, restOfThreads,
                   wframe, lframe, boundary>>

\* ---- the loader thread: load_agent_cards_from_directory ----
\* lines 222-227: the directory exists; the loop starts.
l_call(files) ==
    /\ pc["l"] = "idle"
    /\ lframe' = [files |-> files, idx |-> 1, count |-> 0, card |-> None, returned |-> None]
    /\ Goto("l", "l_next")
    /\ UNCHANGED <<mcp_servers, agent_cards, restOfThreads,
                   lock, wframe, rframe, boundary>>

\* lines 227-236 and 240-245: the next file is skipped, fails, or gives a card.
l_next ==
    /\ pc["l"] = "l_next"
    /\ lframe.idx <= Len(lframe.files)
    /\ LET file == lframe.files[lframe.idx]
           parsed == IF IsJsonFile(file) THEN ParseAgentCard(file) ELSE None
       IN  IF parsed = None
           THEN /\ lframe' = [lframe EXCEPT !.idx = @ + 1]
                /\ UNCHANGED pc
           ELSE /\ lframe' = [lframe EXCEPT !.card = parsed]
                /\ Goto("l", "l_acquire")
    /\ UNCHANGED <<mcp_servers, agent_cards, restOfThreads,
                   lock, wframe, rframe, boundary>>

\* register_agent_card, line 39: with self._lock:
l_acquire ==
    /\ pc["l"] = "l_acquire"
    /\ CanAcquire("l")
    /\ lock' = Acquired("l")
    /\ Goto("l", "l_set")
    /\ UNCHANGED <<mcp_servers, agent_cards, restOfThreads,
                   wframe, rframe, lframe, boundary>>

\* register_agent_card, line 40
l_set ==
    /\ pc["l"] = "l_set"
    /\ agent_cards' = RegisterCardInto(agent_cards, AgentKey(lframe.card[1]), lframe.card[1])
    /\ Goto("l", "l_release")
    /\ UNCHANGED <<mcp_servers, restOfThreads,
                   lock, wframe, rframe, lframe, boundary>>

\* register_agent_card returns; lines 238-239.
l_release ==
    /\ pc["l"] = "l_release"
    /\ lock' = Released("l")
    /\ lframe' = [lframe EXCEPT !.card = None, !.count = @ + 1, !.idx = @ + 1]
    /\ Goto("l", "l_next")
    /\ UNCHANGED <<mcp_servers, agent_cards, restOfThreads,
                   wframe, rframe, boundary>>

\* lines 246-247: the loop is over, the count is returned.
l_return ==
    /\ pc["l"] = "l_next"
    /\ lframe.idx > Len(lframe.files)
    /\ lframe' = [NoLoad EXCEPT !.returned = Some(lframe.count)]
    /\ boundary' = [boundary EXCEPT !.cards = agent_cards]
    /\ Goto("l", "idle")
    /\ UNCHANGED <<mcp_servers, agent_cards, restOfThreads,
                   lock, wframe, rframe>>

NextConc ==
    \/ \E k \in ConcKeys, s \in Servers : w_call_register(k, s)
    \/ \E k \in ConcLookupArgs : w_call_unregister(k)
    \/ w_acquire
    \/ reg_scan
    \/ reg_delete
    \/ reg_insert
    \/ unreg_body
    \/ w_release
    \/ \E op \in ServerReadOps : \E arg \in ReadArgs(op) : r_call(op, arg)
    \/ r_acquire
    \/ r_body
    \/ r_release

SpecConc == Init /\ [][NextConc]_vars

NextConcLoad ==
    \/ \E files \in ConcDirectories : l_call(files)
    \/ l_next
    \/ l_acquire
    \/ l_set
    \/ l_release
    \/ l_return
    \/ \E op \in CardReadOps : \E arg \in ReadArgs(op) : r_call(op, arg)
    \/ r_acquire
    \/ r_body
    \/ r_release

SpecConcLoad == Init /\ [][NextConcLoad]_vars

(***************************************************************************)
(* The object model: the dict holds references to AgentCard objects, and   *)
(* a read returns the references it finds (lines 48-51, 105-110).  In this *)
(* specification agent_cards maps a key to a reference and heap gives the  *)
(* object behind it; the other specifications, where nobody assigns to an  *)
(* object, keep the objects themselves in the dict.                        *)
(***************************************************************************)
MaxObjects == 3

CardNames == {"nlp", "vision"}

CardKeys == {"k1", "k2"}

Card(n, v) == [name |-> n, version |-> v]

\* The stored cards as a reader of the store sees them.
StoredCards ==
    [i \in 1..Len(agent_cards) |->
        [key |-> agent_cards[i].key, val |-> heap[agent_cards[i].val]]]

\* A caller constructs an AgentCard and registers it (lines 34-41).
obj_register_agent_card(agent_id, card) ==
    /\ Len(heap) < MaxObjects
    /\ heap' = Append(heap, card)
    /\ agent_cards' = RegisterCardInto(agent_cards, agent_id, Len(heap) + 1)
    /\ UNCHANGED <<held, restOfObjects>>

\* unregister_agent_card (lines 57-62).
obj_unregister_agent_card(agent_id) ==
    /\ agent_cards' = IF DictHas(agent_cards, agent_id)
                      THEN DictDel(agent_cards, agent_id)
                      ELSE agent_cards
    /\ UNCHANGED <<heap, held, restOfObjects>>

\* get_agent_card returns the stored object (line 51).
obj_get_agent_card(agent_id) ==
    /\ LET card == GetAgentCard(agent_cards, agent_id)
       IN  held' = held \cup (IF card = None THEN {} ELSE {card[1]})
    /\ UNCHANGED <<heap, agent_cards, restOfObjects>>

\* list_agent_cards returns a new list of the stored objects (line 108).
obj_list_agent_cards ==
    /\ LET results == ListAgentCards(agent_cards)
       IN  held' = held \cup {results[i] : i \in 1..Len(results)}
    /\ UNCHANGED <<heap, agent_cards, restOfObjects>>

\* A caller assigns to a field of a descriptor it got: AgentCard is a plain
\* BaseModel (not frozen), so "card.name = n" sets the attribute.
caller_sets_name(n) ==
    /\ \E ref \in held : heap' = [heap EXCEPT ![ref].name = n]
    /\ UNCHANGED <<held, agent_cards, restOfObjects>>

NextObjects ==
    \/ \E k \in CardKeys, n \in CardNames : obj_register_agent_card(k, Card(n, "1"))
    \/ \E k \in CardKeys : obj_unregister_agent_card(k)
    \/ \E k \in CardKeys : obj_get_agent_card(k)
    \/ obj_list_agent_cards
    \/ \E n \in CardNames : caller_sets_name(n)

SpecObjects == Init /\ [][NextObjects]_vars

(***************************************************************************)
(* find_a2a_agents: scoring, ranking and paging of the agent cards.        *)
(* A text is the sequence of its characters; a token is a text.            *)
(***************************************************************************)

\* Most cards a registry searched by find_a2a_agents holds.
MaxCards == 3

UpperCase ==
    <<"A", "B", "C", "D", "E", "F", "G", "H", "I", "J", "K", "L", "M",
      "N", "O", "P", "Q", "R", "S", "T", "U", "V", "W", "X", "Y", "Z">>

LowerCase ==
    <<"a", "b", "c", "d", "e", "f", "g", "h", "i", "j", "k", "l", "m",
      "n", "o", "p", "q", "r", "s", "t", "u", "v", "w", "x", "y", "z">>

DigitChars == <<"0", "1", "2", "3", "4", "5", "6", "7", "8", "9">>

Digits == {DigitChars[i] : i \in DOMAIN DigitChars}

\* The characters the pattern \w matches.
WordChars ==
    {LowerCase[i] : i \in DOMAIN LowerCase} \cup {UpperCase[i] : i \in DOMAIN UpperCase}
        \cup Digits \cup {"_"}

IsWordChar(c) == c \in WordChars

\* The lowercase letter of each uppercase letter.
ToLower ==
    [c \in {UpperCase[i] : i \in DOMAIN UpperCase} |->
        LowerCase[CHOOSE i \in DOMAIN UpperCase : c = UpperCase[i]]]

LowerChar(c) == IF c \in DOMAIN ToLower THEN ToLower[c] ELSE c

\* str.lower()
Lower(text) == [i \in 1..Len(text) |-> LowerChar(text[i])]

IsSpace(c) == c \in {" ", "\t", "\n"}

\* str.strip(): the text without its leading and trailing whitespace.
StripText(text) ==
    LET inked == {i \in 1..Len(text) : ~IsSpace(text[i])}
    IN  IF inked = {} THEN << >>
        ELSE SubSeq(text, CHOOSE i \in inked : \A j \in inked : i <= j,
                          CHOOSE i \in inked : \A j \in inked : j <= i)

\* re.findall(r"\w+", text) scanned from position i: cur is the run of word
\* characters being read, acc the runs completed so far.
RECURSIVE FindAllWords(_, _, _, _)
FindAllWords(text, i, cur, acc) ==
    LET closed == IF cur = << >> THEN acc ELSE acc \cup {cur}
    IN  IF i > Len(text) THEN closed
        ELSE IF IsWordChar(text[i])
             THEN FindAllWords(text, i + 1, Append(cur, text[i]), acc)
             ELSE FindAllWords(text, i + 1, << >>, closed)

\* set(re.findall(r"\w+", text.lower()))
Tokens(text) == FindAllWords(Lower(text), 1, << >>, {})

\* The words the cards and the queries are written with.
W_nlp == <<"n", "l", "p">>
W_agent == <<"a", "g", "e", "n", "t">>
W_vision == <<"v", "i", "s", "i", "o", "n">>
W_translate == <<"t", "r", "a", "n", "s", "l", "a", "t", "e">>
W_text == <<"t", "e", "x", "t">>
W_detect == <<"d", "e", "t", "e", "c", "t">>
W_plain == <<"p", "l", "a", "i", "n">>
W_streaming == <<"s", "t", "r", "e", "a", "m", "i", "n", "g">>
W_zzz == <<"z", "z", "z">>

W_pushNotifications ==
    <<"p", "u", "s", "h", "N", "o", "t", "i", "f", "i", "c", "a", "t", "i", "o", "n", "s">>
W_stateTransitionHistory ==
    <<"s", "t", "a", "t", "e", "T", "r", "a", "n", "s", "i", "t", "i", "o", "n",
      "H", "i", "s", "t", "o", "r", "y">>

\* Capabilities: three optional flags, named by the model's fields.
CapabilityNames ==
    [streaming |-> W_streaming,
     pushNotifications |-> W_pushNotifications,
     stateTransitionHistory |-> W_stateTransitionHistory]

Capabilities(streaming, pushNotifications, stateTransitionHistory) ==
    [streaming |-> streaming, pushNotifications |-> pushNotifications,
     stateTransitionHistory |-> stateTransitionHistory]

\* Skill: id, name and description are required texts, tags are optional.
Skill(id, name, description, tags) ==
    [id |-> id, name |-> name, description |-> description, tags |-> tags]

\* AgentCard: name and version are required; description, capabilities and
\* skills default to None.
AgentCard(name, version, description, capabilities, skills) ==
    [name |-> name, version |-> version, description |-> description,
     capabilities |-> capabilities, skills |-> skills]

\* The registered cards, by storage key.  The first two carry name, version
\* and skills only; the third has a description and a capability; the fourth
\* has a description and a tagged skill.
FindCardKeys == {"nlp-agent:1", "vision-agent:1", "Text-Tools:1", "plain:1"}

FindCard(key) ==
    CASE key = "nlp-agent:1" ->
           AgentCard(W_nlp \o <<"-">> \o W_agent, <<"1">>, None, None,
                     Some(<<Skill(<<"s", "1">>, W_translate, W_translate, None)>>))
      [] key = "vision-agent:1" ->
           AgentCard(W_vision \o <<"-">> \o W_agent, <<"1">>, None, None,
                     Some(<<Skill(<<"s", "2">>, W_detect, W_detect, None)>>))
      [] key = "Text-Tools:1" ->
           AgentCard(<<"T", "e", "x", "t", "-", "T", "o", "o", "l", "s">>, <<"1">>,
                     Some(<<"T", "r", "a", "n", "s", "l", "a", "t", "e", " ", "T", "E", "X", "T">>),
                     Some(Capabilities(Some(TRUE), Some(FALSE), None)), None)
      [] key = "plain:1" ->
           AgentCard(W_plain, <<"1">>, Some(W_plain \o <<" ">> \o W_text), None,
                     Some(<<Skill(<<"s", "3">>, W_detect, W_detect, Some(<<W_vision>>))>>))

\* The queries find_a2a_agents is called with.
Queries ==
    {W_translate \o <<" ">> \o W_text,
     <<"*">>,
     << >>,
     <<" ", "*", " ">>,
     W_zzz,
     <<"A", "g", "e", "n", "t">>,
     W_streaming,
     W_plain \o <<" ">> \o W_text}

\* field_weights of score_agent_card.
field_weights == [name |-> 3, description |-> 2, skills |-> 2, capabilities |-> 1]

\* The tokens of one skill: its name, its description and its tags
\* (tags "or []": no tags when the field is None).
SkillTokens(skill) ==
    Tokens(skill.name) \cup Tokens(skill.description) \cup
    (IF skill.tags = None THEN {}
     ELSE UNION {Tokens(skill.tags[1][t]) : t \in 1..Len(skill.tags[1])})

\* The lowercased names of the flags of the capabilities that are True.
CapTokens(capabilities) ==
    IF capabilities = None THEN {}
    ELSE {Lower(CapabilityNames[f]) :
             f \in {g \in DOMAIN capabilities[1] : capabilities[1][g] = Some(TRUE)}}

\* score_agent_card(query, agent_card): the score, or raised when the
\* description of the card is None (getattr returns the None the attribute
\* holds, and None has no lower()).
ScoreAgentCard(query, agent_card) ==
    LET query_tokens == Tokens(query)
        name_matches == Cardinality(query_tokens \cap Tokens(agent_card.name))
    IN  IF agent_card.description = None
        THEN [raised |-> TRUE, score |-> 0]
        ELSE LET desc_matches ==
                     Cardinality(query_tokens \cap Tokens(agent_card.description[1]))
                 skills == agent_card.skills
                 skill_tokens ==
                     IF skills = None THEN {}
                     ELSE UNION {SkillTokens(skills[1][k]) : k \in 1..Len(skills[1])}
                 skill_matches == Cardinality(query_tokens \cap skill_tokens)
                 cap_matches ==
                     Cardinality(query_tokens \cap CapTokens(agent_card.capabilities))
             IN  [raised |-> FALSE,
                  score |-> field_weights.name * name_matches
                            + field_weights.description * desc_matches
                            + field_weights.skills * skill_matches
                            + field_weights.capabilities * cap_matches]

\* A descending sort that puts an item ahead of the items of equal score.
RECURSIVE SortByScoreDescendingUnstable(_, _, _)
SortByScoreDescendingUnstable(scored, i, sorted) ==
    IF i > Len(scored) THEN sorted
    ELSE LET x == scored[i]
             ahead == Cardinality({j \in 1..Len(sorted) : sorted[j].score > x.score})
         IN  SortByScoreDescendingUnstable(scored, i + 1,
                 SubSeq(sorted, 1, ahead) \o <<x>> \o SubSeq(sorted, ahead + 1, Len(sorted)))

\* list.sort(key=score, reverse=True): a stable sort, so an item goes behind
\* the items before it whose score is at least its own.
RECURSIVE SortByScoreDescending(_, _, _)
SortByScoreDescending(scored, i, sorted) ==
    IF i > Len(scored) THEN sorted
    ELSE LET x == scored[i]
             ahead == Cardinality({j \in 1..Len(sorted) : sorted[j].score >= x.score})
         IN  SortByScoreDescending(scored, i + 1,
                 SubSeq(sorted, 1, ahead) \o <<x>> \o SubSeq(sorted, ahead + 1, Len(sorted)))

\* rank_agent_cards(query, agent_cards): the (card, score) pairs by score
\* descending, or raised when scoring a card raises.
RankAgentCards(query, cards) ==
    LET scores == [i \in 1..Len(cards) |-> ScoreAgentCard(query, cards[i])]
    IN  IF \E i \in 1..Len(cards) : scores[i].raised
        THEN [raised |-> TRUE, ranked |-> << >>]
        ELSE [raised |-> FALSE,
              ranked |-> SortByScoreDescending(
                             [i \in 1..Len(cards) |-> [card |-> cards[i], score |-> scores[i].score]],
                             1, << >>)]

\* A slice bound of a list of length n: a negative bound counts from the
\* end, and every bound is clipped to 0..n.
SliceBound(b, n) ==
    IF b < 0 THEN (IF b + n < 0 THEN 0 ELSE b + n)
    ELSE IF b > n THEN n ELSE b

\* list[start:stop], stop None for list[start:].
PySlice(list, start, stop) ==
    LET n == Len(list)
        lo == SliceBound(start, n)
        hi == IF stop = None THEN n ELSE SliceBound(stop[1], n)
    IN  IF lo < hi THEN SubSeq(list, lo + 1, hi) ELSE << >>

\* list[offset:limit]: limit taken as the end of the slice.
PaginateToLimit(list, offset, limit) ==
    IF limit # None THEN PySlice(list, offset, Some(limit[1]))
    ELSE PySlice(list, offset, None)

\* list[offset:offset+limit] if limit is not None else list[offset:]
Paginate(list, offset, limit) ==
    IF limit # None THEN PySlice(list, offset, Some(offset + limit[1]))
    ELSE PySlice(list, offset, None)

\* The values a filter path walks through: a card, a skill, a list, a
\* string, or None.
Value(kind, of, val) == [kind |-> kind, of |-> of, val |-> val]

NoneValue == Value("none", "none", << >>)

OptionalText(field) == IF field = None THEN NoneValue ELSE Value("str", "char", field[1])

\* getattr(attr, part, None)
GetAttr(attr, part) ==
    IF attr.kind = "card" THEN
        CASE part = "name" -> Value("str", "char", attr.val.name)
          [] part = "version" -> Value("str", "char", attr.val.version)
          [] part = "description" -> OptionalText(attr.val.description)
          [] part = "skills" ->
                IF attr.val.skills = None THEN NoneValue
                ELSE Value("list", "skill", attr.val.skills[1])
          [] OTHER -> NoneValue
    ELSE IF attr.kind = "skill" THEN
        CASE part = "id" -> Value("str", "char", attr.val.id)
          [] part = "name" -> Value("str", "char", attr.val.name)
          [] part = "description" -> Value("str", "char", attr.val.description)
          [] part = "tags" ->
                IF attr.val.tags = None THEN NoneValue
                ELSE Value("list", "str", attr.val.tags[1])
          [] OTHER -> NoneValue
    ELSE NoneValue

\* part.isdigit() and int(part), for the one-digit parts.
IsDigit(part) == part \in Digits

IntOf(part) == (CHOOSE i \in DOMAIN DigitChars : DigitChars[i] = part) - 1

\* One part of a filter path: an index into a list, else an attribute.
PathStep(attr, part) ==
    IF attr.kind = "list" /\ IsDigit(part)
    THEN IF IntOf(part) < Len(attr.val)
         THEN Value(attr.of, "char", attr.val[IntOf(part) + 1])
         ELSE NoneValue
    ELSE GetAttr(attr, part)

\* The walk along the parts of k.split('__'), stopped at the first None.
RECURSIVE ResolvePath(_, _, _)
ResolvePath(attr, parts, i) ==
    IF i > Len(parts) THEN attr
    ELSE LET next == PathStep(attr, parts[i])
         IN  IF next.kind = "none" THEN next ELSE ResolvePath(next, parts, i + 1)

\* matches(card): every filter's path leads to the filter's value.  The
\* values filtered for are strings.
Matches(card, filters) ==
    \A f \in filters :
        LET attr == ResolvePath(Value("card", "card", card), f.key, 1)
        IN  attr.kind = "str" /\ attr.val = f.value

\* The field filters a call is made with: none, by name, by the name of the
\* first skill, and by the name of a second skill together with a key
\* 'filters', which execute drops.
FilterSets ==
    {{},
     {[key |-> <<"name">>, value |-> W_nlp \o <<"-">> \o W_agent]},
     {[key |-> <<"skills", "0", "name">>, value |-> W_detect]},
     {[key |-> <<"filters">>, value |-> W_zzz],
      [key |-> <<"skills", "1", "name">>, value |-> W_detect]}}

\* The predicates a call is made with: none, one accepting the cards of
\* three names, and one that raises when called.
Predicates ==
    {None,
     Some([accepts |-> {W_vision \o <<"-">> \o W_agent, W_plain,
                        <<"T", "e", "x", "t", "-", "T", "o", "o", "l", "s">>},
           raises |-> FALSE]),
     Some([accepts |-> {}, raises |-> TRUE])}

Offsets == {-1, 0, 1, 2}

Limits == {None, Some(-1), Some(0), Some(1), Some(2)}

\* The test of line 129 on the raw query, without strip().
IsWildcardUnstripped(query) == query = << >> \/ query = <<"*">>

\* not query.strip() or query.strip() == "*"
IsWildcard(query) == StripText(query) = << >> \/ StripText(query) = <<"*">>

\* card.model_dump(exclude_none=True): a dict of the fields that are not None.
ModelDump(card) ==
    [form |-> "dict", of |-> card,
     fields |-> {f \in DOMAIN card : f \in {"name", "version"} \/ card[f] # None}]

\* An item of the ranked result: the card object itself.
CardObject(card) == [form |-> "card", of |-> card, fields |-> DOMAIN card]

\* The body raised an exception of class exc.
Raised(exc) == [raised |-> TRUE, exc |-> exc, value |-> << >>]

Returned(list) == [raised |-> FALSE, exc |-> "none", value |-> list]

\* A handler that catches AttributeError alone.
IsAttributeError(exc) == exc = "AttributeError"

\* except Exception: the classes derived from Exception.
IsException(exc) == exc \in {"AttributeError", "RuntimeError", "TypeError", "ValueError"}

\* The body of execute inside its try block.
ExecuteBody(d, query, filter_func, limit, offset, filters) ==
    LET kept == {f \in filters : f.key # <<"filters">>}
        listed == ListAgentCards(d)
        byFields == IF kept # {} THEN SelectSeq(listed, LAMBDA c : Matches(c, kept))
                    ELSE listed
        byFunc == IF filter_func # None
                  THEN SelectSeq(byFields, LAMBDA c : c.name \in filter_func[1].accepts)
                  ELSE byFields
    IN  IF filter_func # None /\ filter_func[1].raises /\ byFields # << >>
        THEN Raised("RuntimeError")
        ELSE IF IsWildcard(query)
        THEN LET paginated == Paginate(byFunc, offset, limit)
             IN  Returned([i \in 1..Len(paginated) |-> ModelDump(paginated[i])])
        ELSE IF byFunc = << >> THEN Returned(<< >>)
        ELSE LET r == RankAgentCards(query, byFunc)
             IN  IF r.raised THEN Raised("AttributeError")
                 ELSE LET positive == SelectSeq(r.ranked, LAMBDA item : item.score > 0)
                          paginated == Paginate(positive, offset, limit)
                      IN  Returned([i \in 1..Len(paginated) |->
                                        CardObject(paginated[i].card)])

\* execute: returns the list the body returns, and [] when the body raised
\* an exception the handler catches; any other exception propagates.
\* raised is the exception the body raised, if any.
Execute(d, query, filter_func, limit, offset, filters) ==
    LET body == ExecuteBody(d, query, filter_func, limit, offset, filters)
    IN  IF ~body.raised
        THEN [raised |-> None, propagated |-> None, returned |-> Some(body.value)]
        ELSE IF IsException(body.exc)
        THEN [raised |-> Some(body.exc), propagated |-> None, returned |-> Some(<< >>)]
        ELSE [raised |-> Some(body.exc), propagated |-> Some(body.exc), returned |-> None]

\* The registries searched: up to MaxCards distinct cards in any order.
FindRegistries ==
    {[i \in 1..Len(l) |-> [key |-> l[i], val |-> FindCard(l[i])]] :
        l \in DistinctLists(FindCardKeys, MaxCards)}

InitFind ==
    /\ ServersInit
    /\ ThreadsIdle
    /\ NoObjects
    /\ loadcall = NoLoadCall
    /\ agent_cards \in FindRegistries
    /\ toolcall = NoToolCall
    /\ \E query \in Queries, filters \in FilterSets, filter_func \in Predicates,
          limit \in Limits, offset \in Offsets :
          findcall = [query |-> query, filters |-> filters, filter_func |-> filter_func,
                      limit |-> limit, offset |-> offset, result |-> None,
                      raised |-> None, propagated |-> None]

find_a2a_agents ==
    /\ findcall.result = None /\ findcall.propagated = None
    /\ LET out == Execute(agent_cards, findcall.query, findcall.filter_func,
                          findcall.limit, findcall.offset, findcall.filters)
       IN  findcall' = [findcall EXCEPT !.result = out.returned, !.raised = out.raised,
                                        !.propagated = out.propagated]
    /\ UNCHANGED restOfFind

NextFind == find_a2a_agents

SpecFind == InitFind /\ [][NextFind]_vars

(***************************************************************************)
(* score_agent_card and rank_agent_cards called on their own.              *)
(***************************************************************************)

\* The cards scored and ranked: the registered ones and a second version of
\* the two that have a description.
RankCardKeys == FindCardKeys \cup {"Text-Tools:2", "plain:2"}

RankCard(key) ==
    CASE key = "Text-Tools:2" -> [FindCard("Text-Tools:1") EXCEPT !.version = <<"2">>]
      [] key = "plain:2" -> [FindCard("plain:1") EXCEPT !.version = <<"2">>]
      [] OTHER -> FindCard(key)

\* The queries scored: those of find_a2a_agents and one repeating a word.
RankQueries == Queries \cup {W_text \o <<" ">> \o <<"T", "e", "x", "t">>}

\* The lists rank_agent_cards is given: up to MaxCards distinct cards.
RankInputs ==
    {[i \in 1..Len(l) |-> RankCard(l[i])] : l \in DistinctLists(RankCardKeys, MaxCards)}

InitRank ==
    /\ StoreInit
    /\ ThreadsIdle
    /\ NoObjects
    /\ loadcall = NoLoadCall
    /\ findcall = NoFindCall
    /\ \E query \in RankQueries, cards \in RankInputs :
          toolcall = [tool |-> "rank", query |-> query, cards |-> cards,
                      scored |-> None, ranked |-> None]

\* score_agent_card(query, cards[i])
score_agent_card ==
    /\ toolcall.scored = None
    /\ \E i \in 1..Len(toolcall.cards) :
          toolcall' = [toolcall EXCEPT !.scored =
                          Some([card |-> toolcall.cards[i],
                                returned |-> ScoreAgentCard(toolcall.query, toolcall.cards[i])])]
    /\ UNCHANGED restOfTool

\* rank_agent_cards(query, cards)
rank_agent_cards ==
    /\ toolcall.ranked = None
    /\ toolcall' = [toolcall EXCEPT !.ranked =
                       Some(RankAgentCards(toolcall.query, toolcall.cards))]
    /\ UNCHANGED restOfTool

NextRank == score_agent_card \/ rank_agent_cards

SpecRank == InitRank /\ [][NextRank]_vars

(***************************************************************************)
(* find_mcp_servers: compatibility score, filtering and paging of the MCP  *)
(* servers.  Scores and weights are counted in hundredths.                  *)
(***************************************************************************)

\* 1.0 in hundredths.
ScoreUnit == 100

\* The weights of _calculate_compatibility_score.
weights == [agent_type |-> 50, capabilities |-> 50]

\* The share of a weight awarded to a factor that is not asked for (0.3).
PartialBase == 30

\* The score returned when no weight was counted (0.1).
FallbackScore == 10

W_tools == <<"t", "o", "o", "l", "s">>
T_nlp_agent == W_nlp \o <<"-">> \o W_agent
T_vision_agent == W_vision \o <<"-">> \o W_agent
T_NLP_AGENT == <<"N", "L", "P", "-", "A", "G", "E", "N", "T">>
T_Streaming == <<"S", "t", "r", "e", "a", "m", "i", "n", "g">>

\* MCPServer with its capabilities and the agent types of its compatibility.
McpServer(id, capabilities, agent_types) ==
    [id |-> id, name |-> id, version |-> "1", description |-> None,
     capabilities |-> capabilities, compatibility |-> [agent_types |-> agent_types]]

FindServerIds == {"srv1", "srv2", "srv3", "srv4"}

FindServer(id) ==
    CASE id = "srv1" -> McpServer("srv1", <<T_Streaming, W_tools>>, <<T_nlp_agent>>)
      [] id = "srv2" -> McpServer("srv2", <<W_tools>>, <<T_vision_agent, T_NLP_AGENT>>)
      [] id = "srv3" -> McpServer("srv3", <<W_streaming>>, <<T_vision_agent>>)
      [] id = "srv4" -> McpServer("srv4", <<W_tools, W_streaming>>, <<T_vision_agent>>)

\* bool(x) of an optional string or list: None and the empty one are falsy.
OptTruthy(x) == x # None /\ x[1] # << >>

\* _supports_agent_type(server, agent_type)
SupportsAgentType(server, agent_type) ==
    LET agent_types == server.compatibility.agent_types
    IN  IF agent_types = << >> THEN FALSE
        ELSE \E t \in 1..Len(agent_types) : Lower(agent_type) = Lower(agent_types[t])

\* any(cap.lower() in server_caps for cap in required_capabilities)
HasAnyCapability(server, required_capabilities) ==
    LET server_caps == {Lower(server.capabilities[c]) : c \in 1..Len(server.capabilities)}
    IN  \E r \in 1..Len(required_capabilities) : Lower(required_capabilities[r]) \in server_caps

\* all(cap.lower() in server_caps for cap in required_capabilities)
HasAllCapabilities(server, required_capabilities) ==
    LET server_caps == {Lower(server.capabilities[c]) : c \in 1..Len(server.capabilities)}
    IN  \A r \in 1..Len(required_capabilities) : Lower(required_capabilities[r]) \in server_caps

\* min(score / total_weight, 1.0) if total_weight > 0 else 0.1
NormalizedScore(score, total_weight) ==
    IF total_weight > 0
    THEN LET quotient == (score * ScoreUnit) \div total_weight
         IN  IF quotient < ScoreUnit THEN quotient ELSE ScoreUnit
    ELSE FallbackScore

\* A total weight that counts the factors asked for only.
TotalWeightOfAsked(typeAsked, capsAsked) ==
    (IF typeAsked THEN weights.agent_type ELSE 0)
    + (IF capsAsked THEN weights.capabilities ELSE 0)

\* total_weight: each factor adds its weight, asked for or not.
TotalWeight(typeAsked, capsAsked) ==
    (IF typeAsked THEN weights.agent_type ELSE weights.agent_type)
    + (IF capsAsked THEN weights.capabilities ELSE weights.capabilities)

\* A score that grades the capabilities factor by the share of the required
\* capabilities the server has, and excludes a server that has none of them.
CalculateCompatibilityScoreGraded(server, agent_type, required_capabilities) ==
    LET typeAsked == OptTruthy(agent_type)
        capsAsked == OptTruthy(required_capabilities)
        server_caps == {Lower(server.capabilities[c]) : c \in 1..Len(server.capabilities)}
        matched == IF capsAsked
                   THEN Cardinality({r \in 1..Len(required_capabilities[1]) :
                            Lower(required_capabilities[1][r]) \in server_caps})
                   ELSE 0
        typeScore == IF typeAsked THEN weights.agent_type
                     ELSE (PartialBase * weights.agent_type) \div ScoreUnit
        capsScore == IF capsAsked
                     THEN (weights.capabilities * matched) \div Len(required_capabilities[1])
                     ELSE (PartialBase * weights.capabilities) \div ScoreUnit
    IN  IF typeAsked /\ ~SupportsAgentType(server, agent_type[1]) THEN 0
        ELSE IF capsAsked /\ matched = 0 THEN 0
        ELSE NormalizedScore(typeScore + capsScore, TotalWeight(typeAsked, capsAsked))

\* _calculate_compatibility_score(server, agent_type, required_capabilities)
CalculateCompatibilityScore(server, agent_type, required_capabilities) ==
    LET typeAsked == OptTruthy(agent_type)
        capsAsked == OptTruthy(required_capabilities)
        typeScore == IF typeAsked THEN weights.agent_type
                     ELSE (PartialBase * weights.agent_type) \div ScoreUnit
        capsScore == IF capsAsked THEN weights.capabilities
                     ELSE (PartialBase * weights.capabilities) \div ScoreUnit
    IN  IF typeAsked /\ ~SupportsAgentType(server, agent_type[1]) THEN 0
        ELSE IF capsAsked /\ ~HasAllCapabilities(server, required_capabilities[1]) THEN 0
        ELSE NormalizedScore(typeScore + capsScore, TotalWeight(typeAsked, capsAsked))

\* server.model_dump(exclude_none=True)
ServerDump(server) ==
    [form |-> "dict", of |-> server,
     fields |-> {"id", "name", "version", "capabilities", "compatibility"}
                \cup (IF server.description # None THEN {"description"} ELSE {})]

\* The loop of execute over all_servers from position i: results so far.
RECURSIVE CompatibleFrom(_, _, _, _, _)
CompatibleFrom(all_servers, i, agent_type, required_capabilities, results) ==
    IF i > Len(all_servers) THEN results
    ELSE LET server == all_servers[i]
             score == CalculateCompatibilityScore(server, agent_type, required_capabilities)
             skip == OptTruthy(agent_type) /\ ~SupportsAgentType(server, agent_type[1])
         IN  CompatibleFrom(all_servers, i + 1, agent_type, required_capabilities,
                 IF ~skip /\ score > 0
                 THEN Append(results, [server |-> ServerDump(server),
                                       compatibility_score |-> score])
                 ELSE results)

\* results.sort(key=compatibility_score, reverse=True): stable.
RECURSIVE SortByCompatibility(_, _, _)
SortByCompatibility(results, i, sorted) ==
    IF i > Len(results) THEN sorted
    ELSE LET x == results[i]
             ahead == Cardinality({j \in 1..Len(sorted) :
                          sorted[j].compatibility_score >= x.compatibility_score})
         IN  SortByCompatibility(results, i + 1,
                 SubSeq(sorted, 1, ahead) \o <<x>> \o SubSeq(sorted, ahead + 1, Len(sorted)))

\* Paging that counts the pages from 0.
PageOfZeroBased(results, page, page_size) ==
    PySlice(results, page * page_size, Some(page * page_size + page_size))

\* results[(page - 1) * page_size : (page - 1) * page_size + page_size]
PageOf(results, page, page_size) ==
    PySlice(results, (page - 1) * page_size, Some((page - 1) * page_size + page_size))

\* A test of the registry that never finds it empty.
NeverEmpty(all_servers) == FALSE

\* not all_servers
NoServers(all_servers) == all_servers = << >>

\* execute of find_mcp_servers: the page returned, or the exception raised
\* (every exception is logged and raised again).
FindMcpServers(d, agent_type, required_capabilities, page, page_size) ==
    LET all_servers == ListMcpServers(d)
    IN  IF NoServers(all_servers)
        THEN [raised |-> Some("ResourceNotFoundError"), returned |-> None]
        ELSE LET results == CompatibleFrom(all_servers, 1, agent_type,
                                           required_capabilities, << >>)
             IN  IF results = << >> THEN [raised |-> None, returned |-> Some(<< >>)]
                 ELSE [raised |-> None,
                       returned |-> Some(PageOf(SortByCompatibility(results, 1, << >>),
                                                page, page_size))]

\* The registries searched: up to MaxEntries distinct servers in any order,
\* each under its id:version key.
ServerRegistries ==
    {[i \in 1..Len(l) |-> [key |-> Composite(l[i], "1"), val |-> FindServer(l[i])]] :
        l \in DistinctLists(FindServerIds, MaxEntries)}

AgentTypes == {None, Some(<< >>), Some(T_NLP_AGENT), Some(T_vision_agent), Some(W_zzz)}

RequiredCapabilities ==
    {None, Some(<< >>), Some(<<W_streaming>>), Some(<<T_Streaming, W_tools>>),
     Some(<<W_tools, W_zzz>>)}

Pages == {1, 2, 3}

PageSizes == {1, 2, 20}

InitFindServers ==
    /\ mcp_servers \in ServerRegistries
    /\ agent_cards = << >>
    /\ seenIds = {}
    /\ history = InitHistory
    /\ ret = NoCall
    /\ ThreadsIdle
    /\ NoObjects
    /\ loadcall = NoLoadCall
    /\ findcall = NoFindCall
    /\ \E agent_type \in AgentTypes, required_capabilities \in RequiredCapabilities,
          page \in Pages, page_size \in PageSizes :
          toolcall = [tool |-> "find_mcp_servers", agent_type |-> agent_type,
                      required_capabilities |-> required_capabilities,
                      page |-> page, page_size |-> page_size,
                      returned |-> None, raised |-> None]

find_mcp_servers ==
    /\ toolcall.returned = None /\ toolcall.raised = None
    /\ LET out == FindMcpServers(mcp_servers, toolcall.agent_type,
                                 toolcall.required_capabilities, toolcall.page,
                                 toolcall.page_size)
       IN  toolcall' = [toolcall EXCEPT !.returned = out.returned, !.raised = out.raised]
    /\ UNCHANGED restOfTool

NextFindServers == find_mcp_servers

SpecFindServers == InitFindServers /\ [][NextFindServers]_vars

(***************************************************************************)
(* get_agent_details and get_mcp_server_details: lookup by id, then by     *)
(* name.                                                                   *)
(***************************************************************************)

\* get_agent_card_by_id(agent_id): the card stored under the key, or None.
GetAgentCardById(d, agent_id) == DictGet(d, agent_id)

\* find_agent_cards_by_name(name): the cards of that name, in store order.
FindAgentCardsByName(d, name) == SelectSeq(DictValues(d), LAMBDA card : card.name = name)

\* model_dump(exclude_none=True) of a descriptor.
DetailsDump(descriptor) == [form |-> "dict", of |-> descriptor]

Raise(exc) == [raised |-> Some(exc), returned |-> None]

Return(value) == [raised |-> None, returned |-> Some(value)]

\* GetAgentDetailsTool.execute(agent_id, agent_name)
GetAgentDetails(d, agent_id, agent_name) ==
    IF ~OptStrTruthy(agent_id) /\ ~OptStrTruthy(agent_name) THEN Raise("ValueError")
    ELSE LET agent == IF OptStrTruthy(agent_id) THEN GetAgentCardById(d, agent_id[1])
                      ELSE None
         IN  IF agent = None /\ OptStrTruthy(agent_name)
             THEN LET all_agents == FindAgentCardsByName(d, agent_name[1])
                  IN  IF all_agents = << >> THEN Raise("ResourceNotFoundError")
                      ELSE Return(DetailsDump(all_agents[1]))
             ELSE IF agent = None THEN Raise("ResourceNotFoundError")
             ELSE Return(DetailsDump(agent[1]))

\* get_mcp_server_details without the fallback to the name: a server id
\* that resolves to nothing ends the call.
GetMcpServerDetailsIdOnly(d, server_id, server_name) ==
    IF ~OptStrTruthy(server_id) /\ ~OptStrTruthy(server_name) THEN Raise("ValueError")
    ELSE IF OptStrTruthy(server_id)
    THEN LET server == GetMcpServerById(d, server_id[1])
         IN  IF server = None THEN Raise("ResourceNotFoundError")
             ELSE Return(DetailsDump(server[1]))
    ELSE LET server == GetMcpServerByName(d, server_name[1])
         IN  IF server = None THEN Raise("ResourceNotFoundError")
             ELSE Return(DetailsDump(server[1]))

\* GetMCPServerDetailsTool.execute(server_id, server_name)
GetMcpServerDetails(d, server_id, server_name) ==
    IF ~OptStrTruthy(server_id) /\ ~OptStrTruthy(server_name) THEN Raise("ValueError")
    ELSE LET byId == IF OptStrTruthy(server_id) THEN GetMcpServerById(d, server_id[1])
                     ELSE None
         IN  IF byId # None THEN Return(DetailsDump(byId[1]))
             ELSE IF OptStrTruthy(server_name)
             THEN LET server == GetMcpServerByName(d, server_name[1])
                  IN  IF server = None THEN Raise("ResourceNotFoundError")
                      ELSE Return(DetailsDump(server[1]))
             ELSE Raise("ResourceNotFoundError")

\* The entries the two collections are filled from: two cards of one name,
\* two servers of one name, one of them under a key that is not its id.
DetailCardEntries ==
    {[key |-> "nlp:1", val |-> Card("nlp", "1")],
     [key |-> "nlp:2", val |-> Card("nlp", "2")],
     [key |-> "vision:1", val |-> Card("vision", "1")]}

DetailServerEntries ==
    {[key |-> "a:1", val |-> Server("a", "1", "n1")],
     [key |-> "k", val |-> Server("b", "1", "n1")],
     [key |-> "c:1", val |-> Server("c", "1", "n2")]}

DetailIds == {None, Some(""), Some("a"), Some("b:1"), Some("nlp:1"), Some("zz")}

DetailNames == {None, Some(""), Some("n1"), Some("nlp"), Some("zz")}

InitDetails ==
    /\ mcp_servers \in DistinctLists(DetailServerEntries, MaxEntries)
    /\ agent_cards \in DistinctLists(DetailCardEntries, MaxEntries)
    /\ seenIds = {}
    /\ history = InitHistory
    /\ ret = NoCall
    /\ ThreadsIdle
    /\ NoObjects
    /\ loadcall = NoLoadCall
    /\ findcall = NoFindCall
    /\ \E tool \in {"get_agent_details", "get_mcp_server_details"},
          id \in DetailIds, name \in DetailNames :
          toolcall = [tool |-> tool, id |-> id, name |-> name,
                      returned |-> None, raised |-> None]

get_agent_details ==
    /\ toolcall.tool = "get_agent_details"
    /\ toolcall.returned = None /\ toolcall.raised = None
    /\ LET out == GetAgentDetails(agent_cards, toolcall.id, toolcall.name)
       IN  toolcall' = [toolcall EXCEPT !.returned = out.returned, !.raised = out.raised]
    /\ UNCHANGED restOfTool

get_mcp_server_details ==
    /\ toolcall.tool = "get_mcp_server_details"
    /\ toolcall.returned = None /\ toolcall.raised = None
    /\ LET out == GetMcpServerDetails(mcp_servers, toolcall.id, toolcall.name)
       IN  toolcall' = [toolcall EXCEPT !.returned = out.returned, !.raised = out.raised]
    /\ UNCHANGED restOfTool

NextDetails == get_agent_details \/ get_mcp_server_details

SpecDetails == InitDetails /\ [][NextDetails]_vars

(***************************************************************************)
(* The resource read of one MCP server, MCPServerResource.get.             *)
(***************************************************************************)

\* The methods class RegistryManager defines.
RegistryManagerMethods ==
    {"register_agent_card", "get_agent_card", "unregister_agent_card",
     "get_agent_card_by_id", "find_agent_cards_by_name",
     "find_agent_cards_by_capability", "list_agent_cards",
     "register_mcp_server", "unregister_mcp_server", "get_mcp_server_by_id",
     "find_mcp_servers_by_capability", "list_mcp_servers",
     "get_mcp_server_by_name", "load_agent_cards_from_directory",
     "load_mcp_servers_from_directory"}

\* registry_manager.<method>(server_id) for the lookups of one server: a
\* name the class does not define raises AttributeError.
CallRegistryManager(method, d, server_id) ==
    IF method \notin RegistryManagerMethods
    THEN [raised |-> Some("AttributeError"), value |-> None]
    ELSE IF method = "get_mcp_server_by_id"
    THEN [raised |-> None, value |-> GetMcpServerById(d, server_id)]
    ELSE [raised |-> None, value |-> GetMcpServerByName(d, server_id)]

\* The characters of the ids the resource is read with.
IdText ==
    [id \in {"a", "a:1", "k", "b_2", "c-3", "zz", "", "a\n"} |->
        CASE id = "a" -> <<"a">>
          [] id = "a:1" -> <<"a", ":", "1">>
          [] id = "k" -> <<"k">>
          [] id = "b_2" -> <<"b", "_", "2">>
          [] id = "c-3" -> <<"c", "-", "3">>
          [] id = "zz" -> <<"z", "z">>
          [] id = "" -> << >>
          [] id = "a\n" -> <<"a", "\n">>]

ResourceIds == DOMAIN IdText

\* The class [a-zA-Z0-9_\-].
IdChars == WordChars \cup {"-"}

\* re.match(r"^[a-zA-Z0-9_\-]+$", server_id): one or more characters of the
\* class up to the end of the text, or up to a newline that ends it.
MatchesIdPattern(text) ==
    LET n == Len(text)
        body == IF n > 0 /\ text[n] = "\n" THEN n - 1 ELSE n
    IN  body >= 1 /\ \A i \in 1..body : text[i] \in IdChars

\* ErrorResponse(message=...).model_dump(exclude_none=True)
ErrorResponse(message) == [status |-> "error", data |-> None, message |-> message]

\* MCPServerResponse(status="success", data=server, message=...).model_dump(exclude_none=True)
MCPServerResponse(server, message) ==
    [status |-> "success", data |-> Some(server), message |-> message]

\* MCPServerResource.get(server_id)
McpServerResourceGet(d, server_id) ==
    IF ~MatchesIdPattern(IdText[server_id]) THEN ErrorResponse("Invalid server_id format")
    ELSE LET call == CallRegistryManager("get_mcp_server", d, server_id)
         IN  IF call.raised # None THEN ErrorResponse("Error retrieving MCP server")
             ELSE IF call.value = None THEN ErrorResponse("MCP server not found")
             ELSE MCPServerResponse(call.value[1], "retrieved successfully")

\* The entries the store is filled from: a server under the loader's key
\* id:version, one under a key that is not its id, one with a hyphen.
ResourceServerEntries ==
    {[key |-> "a:1", val |-> Server("a", "1", "n1")],
     [key |-> "k", val |-> Server("b_2", "1", "n2")],
     [key |-> "c-3:1", val |-> Server("c-3", "1", "n3")]}

InitResource ==
    /\ mcp_servers \in DistinctLists(ResourceServerEntries, MaxEntries)
    /\ agent_cards = << >>
    /\ seenIds = {}
    /\ history = InitHistory
    /\ ret = NoCall
    /\ ThreadsIdle
    /\ NoObjects
    /\ loadcall = NoLoadCall
    /\ findcall = NoFindCall
    /\ \E id \in ResourceIds :
          toolcall = [tool |-> "get_mcp_server", id |-> id, response |-> None]

\* A read of resource://mcp_servers/{server_id}.
get_mcp_server ==
    /\ toolcall.tool = "get_mcp_server"
    /\ toolcall.response = None
    /\ toolcall' = [toolcall EXCEPT
                       !.response = Some(McpServerResourceGet(mcp_servers, toolcall.id))]
    /\ UNCHANGED restOfTool

NextResource == get_mcp_server

SpecResource == InitResource /\ [][NextResource]_vars

(***************************************************************************)
(* The paginated resource reads of the two collections,                    *)
(* AgentCardsResource.get and MCPServersResource.get.                      *)
(***************************************************************************)

\* Meta(page=..., per_page=..., total=...)
Meta(page, per_page, total) == [page |-> page, per_page |-> per_page, total |-> total]

\* The validation of the pagination parameters with no upper limit.
ValidationErrorNoUpperLimit(limit, offset) ==
    IF limit < 1 THEN Some("limit must be between 1 and 100")
    ELSE IF offset < 0 THEN Some("offset must be >= 0")
    ELSE None

\* The ValueError the validation of the pagination parameters raises, None
\* when it raises none.
ValidationError(limit, offset) ==
    IF limit < 1 \/ limit > 100 THEN Some("limit must be between 1 and 100")
    ELSE IF offset < 0 THEN Some("offset must be >= 0")
    ELSE None

\* ErrorResponse(message=str(ex), meta=Meta(page=1, per_page=limit, total=0))
ListErrorResponse(message, limit) ==
    [status |-> "error", data |-> None, message |-> message,
     meta |-> Some(Meta(1, limit, 0))]

\* ApiResponse[List[...]](status="success", data=..., message=..., meta=meta)
ListResponse(data, message, meta) ==
    [status |-> "success", data |-> Some(data), message |-> message,
     meta |-> Some(meta)]

\* The body both reads share, on the list the store's list call returned.
PaginatedGet(all, limit, offset, message) ==
    LET ex == ValidationError(limit, offset)
    IN  IF ex # None THEN ListErrorResponse(ex[1], limit)
        ELSE LET total == Len(all)
                 paginated == PySlice(all, offset, Some(offset + limit))
                 meta == Meta((offset \div limit) + 1, limit, total)
             IN  ListResponse(paginated, message, meta)

\* AgentCardsResource.get(limit, offset)
AgentCardsResourceGet(d, limit, offset) ==
    PaginatedGet(ListAgentCards(d), limit, offset,
                 "A list of all agent cards available to the model.")

\* MCPServersResource.get(limit, offset)
McpServersResourceGet(d, limit, offset) ==
    PaginatedGet(ListMcpServers(d), limit, offset,
                 "A list of all MCP servers available to the model.")

ListLimits == {-1, 0, 1, 2, 3, 100, 101}

ListOffsets == {-1, 0, 1, 2, 3, 5}

InitList ==
    /\ mcp_servers \in DistinctLists(DetailServerEntries, MaxEntries)
    /\ agent_cards \in DistinctLists(DetailCardEntries, MaxEntries)
    /\ seenIds = {}
    /\ history = InitHistory
    /\ ret = NoCall
    /\ ThreadsIdle
    /\ NoObjects
    /\ loadcall = NoLoadCall
    /\ findcall = NoFindCall
    /\ \E tool \in {"list_agent_cards", "list_mcp_servers"},
          limit \in ListLimits, offset \in ListOffsets :
          toolcall = [tool |-> tool, limit |-> limit, offset |-> offset,
                      response |-> None]

\* A read of resource://agent_cards.
list_agent_cards ==
    /\ toolcall.tool = "list_agent_cards"
    /\ toolcall.response = None
    /\ toolcall' = [toolcall EXCEPT !.response =
                       Some(AgentCardsResourceGet(agent_cards, toolcall.limit, toolcall.offset))]
    /\ UNCHANGED restOfTool

\* A read of resource://mcp_servers.
list_mcp_servers ==
    /\ toolcall.tool = "list_mcp_servers"
    /\ toolcall.response = None
    /\ toolcall' = [toolcall EXCEPT !.response =
                       Some(McpServersResourceGet(mcp_servers, toolcall.limit, toolcall.offset))]
    /\ UNCHANGED restOfTool

NextList == list_agent_cards \/ list_mcp_servers

SpecList == InitList /\ [][NextList]_vars

(***************************************************************************)
(* Construction of the Capabilities sub-object of an agent card.  A flag   *)
(* of the input is absent, null, false or true.                            *)
(***************************************************************************)
FlagInputs == {"absent", "null", "false", "true"}

\* The value the model holds for a flag: the default None when the input
\* leaves it out.
FlagValue(flag) ==
    IF flag = "true" THEN Some(TRUE)
    ELSE IF flag = "false" THEN Some(FALSE)
    ELSE None

\* bool(x) of an Optional[bool].
FlagTruthy(value) == value # None /\ value[1]

\* Capabilities.at_least_one_present(v, info): TRUE when it raises.  data
\* holds the fields validated before stateTransitionHistory.
at_least_one_present(v, data) ==
    ~(FlagTruthy(data.streaming) \/ FlagTruthy(data.pushNotifications) \/ FlagTruthy(v))

\* A field validator is run for a field the input supplies; a field left
\* to its default is not validated.
ValidatorRuns(flag) == flag # "absent"

\* Capabilities(**input): the object, or the validation error.
ConstructCapabilities(streaming, pushNotifications, stateTransitionHistory) ==
    LET data == [streaming |-> FlagValue(streaming),
                 pushNotifications |-> FlagValue(pushNotifications)]
        v == FlagValue(stateTransitionHistory)
    IN  IF ValidatorRuns(stateTransitionHistory) /\ at_least_one_present(v, data)
        THEN [raised |-> Some("ValidationError"), value |-> None]
        ELSE [raised |-> None,
              value |-> Some(Capabilities(data.streaming, data.pushNotifications, v))]

InitCapabilities ==
    /\ StoreInit
    /\ ThreadsIdle
    /\ NoObjects
    /\ loadcall = NoLoadCall
    /\ findcall = NoFindCall
    /\ \E s \in FlagInputs, p \in FlagInputs, h \in FlagInputs :
          toolcall = [tool |-> "Capabilities", streaming |-> s,
                      pushNotifications |-> p, stateTransitionHistory |-> h,
                      result |-> None]

\* Capabilities(...) is constructed from the input.
construct_capabilities ==
    /\ toolcall.tool = "Capabilities"
    /\ toolcall.result = None
    /\ toolcall' = [toolcall EXCEPT !.result =
                       Some(ConstructCapabilities(toolcall.streaming,
                                                  toolcall.pushNotifications,
                                                  toolcall.stateTransitionHistory))]
    /\ UNCHANGED restOfTool

NextCapabilities == construct_capabilities

SpecCapabilities == InitCapabilities /\ [][NextCapabilities]_vars

(***************************************************************************)
(* Construction of the connection of an MCP server.  An optional field of  *)
(* the input is None when the input leaves it out or gives null.           *)
(***************************************************************************)
ServerConnection(transport, endpoint, auth_method, headers, command, args, required_env) ==
    [transport |-> transport, endpoint |-> endpoint, auth_method |-> auth_method,
     headers |-> headers, command |-> command, args |-> args,
     required_env |-> required_env]

\* Literal['streamable_http', 'stdio']
IsTransport(transport) == transport \in {"streamable_http", "stdio"}

\* HttpUrl: the texts of the input that are URLs.
IsHttpUrl(text) == text \in {"http://h/mcp"}

\* auth_method: str with ServerConnection.not_empty: TRUE when the field
\* fails (missing, None, empty or blank).
AuthMethodFails(auth_method) == auth_method = None \/ IsEmptyField(auth_method[1])

\* The fields validate one by one before the model validator is run.
FieldsFail(c) ==
    \/ ~IsTransport(c.transport)
    \/ c.endpoint # None /\ ~IsHttpUrl(c.endpoint[1])
    \/ AuthMethodFails(c.auth_method)

\* "not self.command or not self.args"
CommandOrArgsMissing(c) ==
    \/ c.command = None \/ ~StrTruthy(c.command[1])
    \/ c.args = None \/ Len(c.args[1]) = 0

\* check_transport_requirements without the test of headers under stdio.
CheckTransportRequirementsHeadersAllowed(c) ==
    \/ /\ c.transport = "streamable_http"
       /\ \/ c.endpoint = None
          \/ c.command # None \/ c.args # None \/ c.required_env # None
    \/ /\ c.transport = "stdio"
       /\ \/ c.endpoint # None
          \/ CommandOrArgsMissing(c)

\* ServerConnection.check_transport_requirements: TRUE when it raises.
CheckTransportRequirements(c) ==
    \/ /\ c.transport = "streamable_http"
       /\ \/ c.endpoint = None
          \/ c.command # None \/ c.args # None \/ c.required_env # None
    \/ /\ c.transport = "stdio"
       /\ \/ c.endpoint # None
          \/ c.headers # None
          \/ CommandOrArgsMissing(c)

\* ServerConnection(**input): the object, or the validation error.
ConstructServerConnection(c) ==
    IF FieldsFail(c) \/ CheckTransportRequirements(c)
    THEN [raised |-> Some("ValidationError"), value |-> None]
    ELSE [raised |-> None, value |-> Some(c)]

ConnectionInputs ==
    {ServerConnection(t, e, a, h, c, g, r) :
        t \in {"streamable_http", "stdio", "sse"},
        e \in {None, Some("http://h/mcp"), Some("h")},
        a \in {None, Some(""), Some(" "), Some("bearer")},
        h \in {None, Some({}), Some({"X-Key"})},
        c \in {None, Some(""), Some("npx")},
        g \in {None, Some(<< >>), Some(<<"-y">>)},
        r \in {None, Some(<< >>), Some(<<"TOKEN">>)}}

InitConnection ==
    /\ StoreInit
    /\ ThreadsIdle
    /\ NoObjects
    /\ loadcall = NoLoadCall
    /\ findcall = NoFindCall
    /\ \E c \in ConnectionInputs :
          toolcall = [tool |-> "ServerConnection", input |-> c, result |-> None]

\* ServerConnection(...) is constructed from the input.
construct_server_connection ==
    /\ toolcall.tool = "ServerConnection"
    /\ toolcall.result = None
    /\ toolcall' = [toolcall EXCEPT !.result = Some(ConstructServerConnection(toolcall.input))]
    /\ UNCHANGED restOfTool

NextConnection == construct_server_connection

SpecConnection == InitConnection /\ [][NextConnection]_vars

(***************************************************************************)
(* The Helm write tools: install_chart, upgrade_release and                *)
(* uninstall_release of HelmHandler.  A command is a list of texts, a text *)
(* the sequence of its characters; the call records the subprocesses it    *)
(* starts and the checks it makes, in order.                               *)
(***************************************************************************)
\* get_dangerous_patterns(): the patterns in the order of the list.  The
\* grave accent is written BACKTICK, as a string here cannot hold it.
DangerousPatterns ==
    <<"|", ";", "&", "&&", "||", ">", ">>", "<", "BACKTICK", "$(", "--",
      "/bin/", "/usr/bin/", "../", "./", "sudo", "chmod", "chown", "su",
      "bash", "sh", "zsh", "curl", "wget", "ssh", "scp", "eval", "source",
      "cmd", "powershell", "pwsh", "net", "reg", "runas", "del", "rmdir",
      "taskkill", "sc", "schtasks", "wmic", "%SYSTEMROOT%", "%WINDIR%",
      ".bat", ".cmd", ".ps1">>

\* The characters of the strings of the model.
TextOf ==
    [s \in {"|", ";", "&", "&&", "||", ">",
             ">>", "<", "BACKTICK", "$(", "--", "/bin/",
             "/usr/bin/", "../", "./", "sudo", "chmod", "chown",
             "su", "bash", "sh", "zsh", "curl", "wget",
             "ssh", "scp", "eval", "source", "cmd", "powershell",
             "pwsh", "net", "reg", "runas", "del", "rmdir",
             "taskkill", "sc", "schtasks", "wmic", "%SYSTEMROOT%", "%WINDIR%",
             ".bat", ".cmd", ".ps1", "helm", "repo", "add",
             "update", "install", "upgrade", "uninstall", "--version", "--namespace",
             "--create-namespace", "--atomic", "--wait", "--timeout", "--keep-history", "-f",
             "web", "bitnami/nginx", "nginx", "https://charts.example", "https://x|y", "1.2.3",
             "prod", "/tmp/tmpab12.yaml", "/tmp/tmpsh01.yaml", "values.yaml", "--debug", "a=b;c",
             "a: 1", "5m"} |->
        CASE s = "|" -> <<"|">>
          [] s = ";" -> <<";">>
          [] s = "&" -> <<"&">>
          [] s = "&&" -> <<"&", "&">>
          [] s = "||" -> <<"|", "|">>
          [] s = ">" -> <<">">>
          [] s = ">>" -> <<">", ">">>
          [] s = "<" -> <<"<">>
          [] s = "BACKTICK" -> <<"BACKTICK">>
          [] s = "$(" -> <<"$", "(">>
          [] s = "--" -> <<"-", "-">>
          [] s = "/bin/" -> <<"/", "b", "i", "n", "/">>
          [] s = "/usr/bin/" -> <<"/", "u", "s", "r", "/", "b", "i", "n", "/">>
          [] s = "../" -> <<".", ".", "/">>
          [] s = "./" -> <<".", "/">>
          [] s = "sudo" -> <<"s", "u", "d", "o">>
          [] s = "chmod" -> <<"c", "h", "m", "o", "d">>
          [] s = "chown" -> <<"c", "h", "o", "w", "n">>
          [] s = "su" -> <<"s", "u">>
          [] s = "bash" -> <<"b", "a", "s", "h">>
          [] s = "sh" -> <<"s", "h">>
          [] s = "zsh" -> <<"z", "s", "h">>
          [] s = "curl" -> <<"c", "u", "r", "l">>
          [] s = "wget" -> <<"w", "g", "e", "t">>
          [] s = "ssh" -> <<"s", "s", "h">>
          [] s = "scp" -> <<"s", "c", "p">>
          [] s = "eval" -> <<"e", "v", "a", "l">>
          [] s = "source" -> <<"s", "o", "u", "r", "c", "e">>
          [] s = "cmd" -> <<"c", "m", "d">>
          [] s = "powershell" -> <<"p", "o", "w", "e", "r", "s", "h", "e", "l", "l">>
          [] s = "pwsh" -> <<"p", "w", "s", "h">>
          [] s = "net" -> <<"n", "e", "t">>
          [] s = "reg" -> <<"r", "e", "g">>
          [] s = "runas" -> <<"r", "u", "n", "a", "s">>
          [] s = "del" -> <<"d", "e", "l">>
          [] s = "rmdir" -> <<"r", "m", "d", "i", "r">>
          [] s = "taskkill" -> <<"t", "a", "s", "k", "k", "i", "l", "l">>
          [] s = "sc" -> <<"s", "c">>
          [] s = "schtasks" -> <<"s", "c", "h", "t", "a", "s", "k", "s">>
          [] s = "wmic" -> <<"w", "m", "i", "c">>
          [] s = "%SYSTEMROOT%" -> <<"%", "S", "Y", "S", "T", "E", "M", "R", "O", "O", "T", "%">>
          [] s = "%WINDIR%" -> <<"%", "W", "I", "N", "D", "I", "R", "%">>
          [] s = ".bat" -> <<".", "b", "a", "t">>
          [] s = ".cmd" -> <<".", "c", "m", "d">>
          [] s = ".ps1" -> <<".", "p", "s", "1">>
          [] s = "helm" -> <<"h", "e", "l", "m">>
          [] s = "repo" -> <<"r", "e", "p", "o">>
          [] s = "add" -> <<"a", "d", "d">>
          [] s = "update" -> <<"u", "p", "d", "a", "t", "e">>
          [] s = "install" -> <<"i", "n", "s", "t", "a", "l", "l">>
          [] s = "upgrade" -> <<"u", "p", "g", "r", "a", "d", "e">>
          [] s = "uninstall" -> <<"u", "n", "i", "n", "s", "t", "a", "l", "l">>
          [] s = "--version" -> <<"-", "-", "v", "e", "r", "s", "i", "o", "n">>
          [] s = "--namespace" -> <<"-", "-", "n", "a", "m", "e", "s", "p", "a", "c", "e">>
          [] s = "--create-namespace" -> <<"-", "-", "c", "r", "e", "a", "t", "e", "-", "n", "a", "m", "e", "s", "p", "a", "c", "e">>
          [] s = "--atomic" -> <<"-", "-", "a", "t", "o", "m", "i", "c">>
          [] s = "--wait" -> <<"-", "-", "w", "a", "i", "t">>
          [] s = "--timeout" -> <<"-", "-", "t", "i", "m", "e", "o", "u", "t">>
          [] s = "--keep-history" -> <<"-", "-", "k", "e", "e", "p", "-", "h", "i", "s", "t", "o", "r", "y">>
          [] s = "-f" -> <<"-", "f">>
          [] s = "web" -> <<"w", "e", "b">>
          [] s = "bitnami/nginx" -> <<"b", "i", "t", "n", "a", "m", "i", "/", "n", "g", "i", "n", "x">>
          [] s = "nginx" -> <<"n", "g", "i", "n", "x">>
          [] s = "https://charts.example" -> <<"h", "t", "t", "p", "s", ":", "/", "/", "c", "h", "a", "r", "t", "s", ".", "e", "x", "a", "m", "p", "l", "e">>
          [] s = "https://x|y" -> <<"h", "t", "t", "p", "s", ":", "/", "/", "x", "|", "y">>
          [] s = "1.2.3" -> <<"1", ".", "2", ".", "3">>
          [] s = "prod" -> <<"p", "r", "o", "d">>
          [] s = "/tmp/tmpab12.yaml" -> <<"/", "t", "m", "p", "/", "t", "m", "p", "a", "b", "1", "2", ".", "y", "a", "m", "l">>
          [] s = "/tmp/tmpsh01.yaml" -> <<"/", "t", "m", "p", "/", "t", "m", "p", "s", "h", "0", "1", ".", "y", "a", "m", "l">>
          [] s = "values.yaml" -> <<"v", "a", "l", "u", "e", "s", ".", "y", "a", "m", "l">>
          [] s = "--debug" -> <<"-", "-", "d", "e", "b", "u", "g">>
          [] s = "a=b;c" -> <<"a", "=", "b", ";", "c">>
          [] s = "a: 1" -> <<"a", ":", " ", "1">>
          [] s = "5m" -> <<"5", "m">>]

\* "pattern in arg": pattern is a substring of arg.
Contains(arg, pattern) ==
    \E i \in 0..(Len(arg) - Len(pattern)) : SubSeq(arg, i + 1, i + Len(pattern)) = pattern

\* The test of one pattern on one argument (helm_helper.py lines 51-58).
PatternHits(pattern, arg) ==
    IF pattern = "--" THEN arg = TextOf["--"] ELSE Contains(arg, TextOf[pattern])

\* The first pattern found in arg, 0 when there is none.
FirstPattern(arg) ==
    FirstIndex({p \in 1..Len(DangerousPatterns) : PatternHits(DangerousPatterns[p], arg)})

\* check_for_dangerous_patterns(args): the first pattern of the first
\* argument that has one, or None.
CheckForDangerousPatterns(args) ==
    LET i == FirstIndex({j \in 1..Len(args) : FirstPattern(args[j]) # 0})
    IN  IF i = 0 THEN None ELSE Some(DangerousPatterns[FirstPattern(args[i])])

\* text.split("/")[0]
BeforeSlash(text) ==
    LET i == FirstIndex({j \in 1..Len(text) : text[j] = "/"})
    IN  IF i = 0 THEN text ELSE SubSeq(text, 1, i - 1)

\* The events a call records.
RunEvent(cmd) == [kind |-> "run", args |-> cmd]

CheckEvent(cmd) == [kind |-> "check", args |-> cmd]

\* The output object of a tool, with the text of its content.
HelmOutput(isError, status, text) == [isError |-> isError, status |-> status, text |-> text]

Returns(events, output) == [events |-> events, raised |-> None, returned |-> Some(output)]

Propagates(events, exc) == [events |-> events, raised |-> Some(exc), returned |-> None]

\* cmd += [flag, value] under "if value:".
FlagWithValue(flag, value) ==
    IF OptStrTruthy(value) THEN <<TextOf[flag], TextOf[value[1]]>> ELSE << >>

\* cmd += [flag] under "if switch:".
Flag(flag, switch) == IF switch THEN <<TextOf[flag]>> ELSE << >>

\* cmd += ["-f", f.name] for the temporary file of values_file_content.
ValuesFileContentArgs(in, env) ==
    IF OptStrTruthy(in.values_file_content)
    THEN <<TextOf["-f"], TextOf[env.temp_name]>> ELSE << >>

\* cmd += ["-f", vf] for vf in values_files.
RECURSIVE ValuesFilesArgs(_)
ValuesFilesArgs(values_files) ==
    IF values_files = << >> THEN << >>
    ELSE <<TextOf["-f"], TextOf[Head(values_files)]>> \o ValuesFilesArgs(Tail(values_files))

\* cmd += extra_args
ExtraArgs(extra_args) == [i \in 1..Len(extra_args) |-> TextOf[extra_args[i]]]

\* The two subprocesses of "helm repo add" and "helm repo update": the
\* events, and failed when one of them raised (any exception is caught).
AddRepo(repo_name, repo_url, env) ==
    LET add == RunEvent(<<TextOf["helm"], TextOf["repo"], TextOf["add"], repo_name, repo_url>>)
        update == RunEvent(<<TextOf["helm"], TextOf["repo"], TextOf["update"]>>)
    IN  IF env.repo_add # "ok" THEN [events |-> <<add>>, failed |-> TRUE]
        ELSE IF env.repo_update # "ok" THEN [events |-> <<add, update>>, failed |-> TRUE]
        ELSE [events |-> <<add, update>>, failed |-> FALSE]

\* get_kube_config and subprocess.run(cmd, check=True) under
\* "except subprocess.CalledProcessError": every other exception leaves the
\* tool.
RunHelm(events, cmd, env, done) ==
    IF env.kube_config # "ok" THEN Propagates(events, env.kube_config)
    ELSE LET ran == Append(events, RunEvent(cmd))
         IN  IF env.run = "ok" THEN Returns(ran, HelmOutput(FALSE, done, "stdout"))
             ELSE IF env.run = "CalledProcessError"
             THEN Returns(ran, HelmOutput(TRUE, "error", "stderr"))
             ELSE Propagates(ran, env.run)

\* The pattern check of the command, then RunHelm.
CheckThenRun(events, cmd, env, done) ==
    LET checked == Append(events, CheckEvent(cmd))
        pattern == CheckForDangerousPatterns(cmd)
    IN  IF pattern # None
        THEN Returns(checked, HelmOutput(TRUE, "error", "Dangerous pattern detected"))
        ELSE RunHelm(checked, cmd, env, done)

\* The two tests every write tool starts with.
PreCheck(env) ==
    IF ~env.allow_write THEN Some("not allowed without write access")
    ELSE IF ~env.helm_installed THEN Some("Helm binary is not installed")
    ELSE None

\* HelmHandler.install_chart
InstallChart(in, env) ==
    IF PreCheck(env) # None THEN Returns(<< >>, HelmOutput(TRUE, "error", PreCheck(env)[1]))
    ELSE LET chart == TextOf[in.chart[1]]
             repo_name == BeforeSlash(chart)
             repo == IF OptStrTruthy(in.repo_url)
                     THEN AddRepo(repo_name, TextOf[in.repo_url[1]], env)
                     ELSE [events |-> << >>, failed |-> FALSE]
             cmd == <<TextOf["helm"], TextOf["install"], TextOf[in.release_name], chart>>
                    \o FlagWithValue("--version", in.version)
                    \o FlagWithValue("--namespace", in.namespace)
                    \o Flag("--create-namespace", in.create_namespace)
                    \o Flag("--atomic", in.atomic)
                    \o Flag("--wait", in.wait)
                    \o FlagWithValue("--timeout", in.timeout)
                    \o ValuesFileContentArgs(in, env)
                    \o ValuesFilesArgs(in.values_files)
                    \o ExtraArgs(in.extra_args)
         IN  IF repo.failed
             THEN Returns(repo.events, HelmOutput(TRUE, "error", "Failed to add/update repo"))
             ELSE CheckThenRun(repo.events, cmd, env, "deployed")

\* HelmHandler.upgrade_release
UpgradeRelease(in, env) ==
    IF PreCheck(env) # None THEN Returns(<< >>, HelmOutput(TRUE, "error", PreCheck(env)[1]))
    ELSE LET hasChart == OptStrTruthy(in.chart)
             repo_name == IF hasChart THEN BeforeSlash(TextOf[in.chart[1]])
                          ELSE TextOf[in.release_name]
             repo == IF OptStrTruthy(in.repo_url) /\ hasChart
                     THEN AddRepo(repo_name, TextOf[in.repo_url[1]], env)
                     ELSE [events |-> << >>, failed |-> FALSE]
             cmd == <<TextOf["helm"], TextOf["upgrade"], TextOf[in.release_name]>>
                    \o (IF hasChart THEN <<TextOf[in.chart[1]]>> ELSE << >>)
                    \o FlagWithValue("--version", in.version)
                    \o FlagWithValue("--namespace", in.namespace)
                    \o Flag("--atomic", in.atomic)
                    \o Flag("--wait", in.wait)
                    \o FlagWithValue("--timeout", in.timeout)
                    \o ValuesFileContentArgs(in, env)
                    \o ValuesFilesArgs(in.values_files)
                    \o ExtraArgs(in.extra_args)
         IN  IF repo.failed
             THEN Returns(repo.events, HelmOutput(TRUE, "error", "Failed to add/update repo"))
             ELSE CheckThenRun(repo.events, cmd, env, "upgraded")

\* HelmHandler.uninstall_release
UninstallRelease(in, env) ==
    IF PreCheck(env) # None THEN Returns(<< >>, HelmOutput(TRUE, "error", PreCheck(env)[1]))
    ELSE LET cmd == <<TextOf["helm"], TextOf["uninstall"], TextOf[in.release_name]>>
                    \o FlagWithValue("--namespace", in.namespace)
                    \o Flag("--keep-history", in.keep_history)
         IN  CheckThenRun(<< >>, cmd, env, "uninstalled")

\* What a subprocess can do: end well, end with a non-zero status
\* (check=True raises CalledProcessError), or fail to start (OSError).
SubprocessOutcomes == {"ok", "CalledProcessError", "OSError"}

HelmEnvironments ==
    [allow_write : BOOLEAN, helm_installed : BOOLEAN,
     repo_add : SubprocessOutcomes, repo_update : {"ok", "CalledProcessError"},
     kube_config : {"ok", "FileNotFoundError"}, run : SubprocessOutcomes,
     temp_name : {"/tmp/tmpab12.yaml", "/tmp/tmpsh01.yaml"}]

HelmInputs ==
    [release_name : {"web"},
     chart : {None, Some("bitnami/nginx"), Some("nginx")},
     version : {None, Some("1.2.3")},
     namespace : {None, Some("prod")},
     create_namespace : {FALSE}, atomic : {FALSE}, wait : {TRUE}, keep_history : {TRUE},
     timeout : {None},
     values_file_content : {None, Some("a: 1")},
     values_files : {<< >>, <<"values.yaml">>},
     extra_args : {<< >>, <<"--debug", "a=b;c">>},
     repo_url : {None, Some("https://charts.example"), Some("https://x|y")}]

\* The inputs a tool takes: install_chart requires a chart, and a call
\* without values_file_content makes no temporary file.
HelmCalls ==
    {c \in [tool : {"install_chart", "upgrade_release", "uninstall_release"},
            in : HelmInputs, env : HelmEnvironments] :
        /\ c.tool = "install_chart" => c.in.chart # None
        /\ c.in.values_file_content = None => c.env.temp_name = "/tmp/tmpab12.yaml"
        /\ c.tool = "uninstall_release" =>
              /\ c.in.chart = None /\ c.in.version = None /\ c.in.repo_url = None
              /\ c.in.values_file_content = None /\ c.in.values_files = << >>
              /\ c.in.extra_args = << >>
              /\ c.env.repo_add = "ok" /\ c.env.repo_update = "ok"}

InitHelm ==
    /\ StoreInit
    /\ ThreadsIdle
    /\ NoObjects
    /\ loadcall = NoLoadCall
    /\ findcall = NoFindCall
    /\ \E c \in HelmCalls :
          toolcall = [tool |-> c.tool, in |-> c.in, env |-> c.env, result |-> None]

install_chart ==
    /\ toolcall.tool = "install_chart"
    /\ toolcall.result = None
    /\ toolcall' = [toolcall EXCEPT !.result = Some(InstallChart(toolcall.in, toolcall.env))]
    /\ UNCHANGED restOfTool

upgrade_release ==
    /\ toolcall.tool = "upgrade_release"
    /\ toolcall.result = None
    /\ toolcall' = [toolcall EXCEPT !.result = Some(UpgradeRelease(toolcall.in, toolcall.env))]
    /\ UNCHANGED restOfTool

uninstall_release ==
    /\ toolcall.tool = "uninstall_release"
    /\ toolcall.result = None
    /\ toolcall' = [toolcall EXCEPT !.result = Some(UninstallRelease(toolcall.in, toolcall.env))]
    /\ UNCHANGED restOfTool

NextHelm == install_chart \/ upgrade_release \/ uninstall_release

SpecHelm == InitHelm /\ [][NextHelm]_vars

(***************************************************************************)
(* Termination of the store operations.  Two threads call register,        *)
(* unregister, get, find and list; list takes a predicate, which returns,  *)
(* raises, or calls the store again on the same thread.  Every operation   *)
(* is one "with self._lock:" block.                                        *)
(***************************************************************************)
MaxCalls == 2

LockThreads == {"w", "r"}

LockOps ==
    {"register_mcp_server", "unregister_mcp_server", "get_mcp_server_by_id",
     "find_mcp_servers_by_capability", "list_mcp_servers"}

\* The predicates given to list_mcp_servers: none, one that returns True,
\* one that raises, one that reads the store, one that unregisters a server.
Predicates4List == {"none", "true", "raises", "get", "unregister"}

LockKeys == {"a", "k"}

IdleFrame(calls) ==
    [op |-> "none", arg |-> "", pred |-> "none", idx |-> 0, size |-> 0,
     raised |-> None, calls |-> calls]

Frame(t) == toolcall.frame[t]

SetFrame(t, frame) == toolcall' = [toolcall EXCEPT !.frame[t] = frame]

lockRest ==
    <<agent_cards, seenIds, history, ret, wframe, rframe, lframe, boundary,
      heap, held, loadcall, findcall>>

InitLock ==
    /\ StoreInit
    /\ ThreadsIdle
    /\ NoObjects
    /\ loadcall = NoLoadCall
    /\ findcall = NoFindCall
    /\ toolcall = [tool |-> "store", frame |-> [t \in LockThreads |-> IdleFrame(0)]]

\* A thread calls an operation of the store.
op_call(t, op, arg, pred) ==
    /\ pc[t] = "idle"
    /\ Frame(t).calls < MaxCalls
    /\ pred # "none" => op = "list_mcp_servers"
    /\ SetFrame(t, [Frame(t) EXCEPT !.op = op, !.arg = arg, !.pred = pred])
    /\ Goto(t, "acquire")
    /\ UNCHANGED <<mcp_servers, lock, lockRest>>

\* with self._lock: the thread waits until the lock is free or its own.
op_acquire(t) ==
    /\ pc[t] = "acquire"
    /\ CanAcquire(t)
    /\ lock' = Acquired(t)
    /\ Goto(t, "body")
    /\ UNCHANGED <<mcp_servers, toolcall, lockRest>>

\* The body of an operation other than a list with a predicate.
op_body(t) ==
    /\ pc[t] = "body"
    /\ ~(Frame(t).op = "list_mcp_servers" /\ Frame(t).pred # "none")
    /\ mcp_servers' =
         IF Frame(t).op = "register_mcp_server"
         THEN RegisterInto(mcp_servers, Frame(t).arg, Server("a", "1", "n1"))
         ELSE IF Frame(t).op = "unregister_mcp_server"
         THEN UnregisterFrom(mcp_servers, Frame(t).arg)
         ELSE mcp_servers
    /\ Goto(t, "release")
    /\ UNCHANGED <<lock, toolcall, lockRest>>

\* list_mcp_servers(filter_func) starts the comprehension over the values.
list_start(t) ==
    /\ pc[t] = "body"
    /\ Frame(t).op = "list_mcp_servers" /\ Frame(t).pred # "none"
    /\ SetFrame(t, [Frame(t) EXCEPT !.idx = 0, !.size = Len(mcp_servers)])
    /\ Goto(t, "filter")
    /\ UNCHANGED <<mcp_servers, lock, lockRest>>

\* The comprehension takes the next value and calls the predicate on it; a
\* dict that changed size since the start raises RuntimeError.
list_next(t) ==
    /\ pc[t] = "filter"
    /\ IF Len(mcp_servers) # Frame(t).size
       THEN /\ SetFrame(t, [Frame(t) EXCEPT !.raised = Some("RuntimeError")])
            /\ Goto(t, "release")
       ELSE IF Frame(t).idx >= Len(mcp_servers)
       THEN /\ UNCHANGED toolcall
            /\ Goto(t, "release")
       ELSE IF Frame(t).pred = "raises"
       THEN /\ SetFrame(t, [Frame(t) EXCEPT !.raised = Some("ValueError")])
            /\ Goto(t, "release")
       ELSE IF Frame(t).pred = "true"
       THEN /\ SetFrame(t, [Frame(t) EXCEPT !.idx = @ + 1])
            /\ Goto(t, "filter")
       ELSE /\ UNCHANGED toolcall
            /\ Goto(t, "nested_acquire")
    /\ UNCHANGED <<mcp_servers, lock, lockRest>>

\* The predicate calls the store: with self._lock on the thread that holds
\* the lock.
nested_acquire(t) ==
    /\ pc[t] = "nested_acquire"
    /\ CanAcquire(t)
    /\ lock' = Acquired(t)
    /\ Goto(t, "nested_body")
    /\ UNCHANGED <<mcp_servers, toolcall, lockRest>>

\* The body and the end of the operation the predicate called; the
\* predicate returns True.
nested_release(t) ==
    /\ pc[t] = "nested_body"
    /\ mcp_servers' = IF Frame(t).pred = "unregister"
                      THEN UnregisterFrom(mcp_servers, Frame(t).arg)
                      ELSE mcp_servers
    /\ lock' = Released(t)
    /\ SetFrame(t, [Frame(t) EXCEPT !.idx = @ + 1])
    /\ Goto(t, "filter")
    /\ UNCHANGED lockRest

\* Leaving the with block, by return or by exception: the call ends.
op_release(t) ==
    /\ pc[t] = "release"
    /\ lock' = Released(t)
    /\ SetFrame(t, IdleFrame(Frame(t).calls + 1))
    /\ Goto(t, "idle")
    /\ UNCHANGED <<mcp_servers, lockRest>>

\* The steps of a thread inside a call, the wait for the lock left out.
Proceed(t) ==
    \/ op_body(t)
    \/ list_start(t)
    \/ list_next(t)
    \/ nested_acquire(t)
    \/ nested_release(t)
    \/ op_release(t)

NextLock ==
    \/ \E t \in LockThreads, op \in LockOps, arg \in LockKeys, pred \in Predicates4List :
          op_call(t, op, arg, pred)
    \/ \E t \in LockThreads : op_acquire(t)
    \/ \E t \in LockThreads : op_body(t)
    \/ \E t \in LockThreads : list_start(t)
    \/ \E t \in LockThreads : list_next(t)
    \/ \E t \in LockThreads : nested_acquire(t)
    \/ \E t \in LockThreads : nested_release(t)
    \/ \E t \in LockThreads : op_release(t)

SpecLock == InitLock /\ [][NextLock]_vars

\* Fair scheduling: a thread that can proceed does, and a thread waiting
\* for a lock that is free again and again gets it.
FairLock ==
    \A t \in LockThreads : WF_vars(Proceed(t)) /\ SF_vars(op_acquire(t))

SpecLockFair == SpecLock /\ FairLock

(***************************************************************************)
(* Reading back a loaded agent card: load_agent_cards_from_directory, then *)
(* AgentCardResource.get with the key the loader stored the card under.    *)
(***************************************************************************)

\* The characters of the keys the cards of the load model are stored under.
CardKeyText ==
    [id \in {"nlp:1", "nlp:2", "vision:1", "other:1", "k1"} |->
        CASE id = "nlp:1" -> <<"n", "l", "p", ":", "1">>
          [] id = "nlp:2" -> <<"n", "l", "p", ":", "2">>
          [] id = "vision:1" -> <<"v", "i", "s", "i", "o", "n", ":", "1">>
          [] id = "other:1" -> <<"o", "t", "h", "e", "r", ":", "1">>
          [] id = "k1" -> <<"k", "1">>]

\* AgentCardResponse(status="success", data=card, message=...).model_dump(exclude_none=True)
AgentCardResponse(card, message) ==
    [status |-> "success", data |-> Some(card), message |-> message]

\* AgentCardResource.get(agent_id)
AgentCardResourceGet(d, agent_id) ==
    IF ~MatchesIdPattern(CardKeyText[agent_id]) THEN ErrorResponse("Invalid agent_id format")
    ELSE LET card == GetAgentCard(d, agent_id)
         IN  IF card = None THEN ErrorResponse("Agent card not found")
             ELSE AgentCardResponse(card[1], "retrieved successfully")

\* The keys under which the load registered a card: name:version of every
\* file of the directory that parsed and validated.
LoadedKeys ==
    IF loadcall.dir = None THEN {}
    ELSE {AgentKey(ParseAgentCard(loadcall.dir[1][i])[1]) :
            i \in {j \in 1..Len(loadcall.dir[1]) :
                     /\ IsJsonFile(loadcall.dir[1][j])
                     /\ ParseAgentCard(loadcall.dir[1][j]) # None}}

\* A read of resource://agent_cards/{agent_id} after the load, with the key
\* of a loaded card or a key that is none.
get_agent_card ==
    /\ loadcall.returned # None
    /\ toolcall = NoToolCall
    /\ \E agent_id \in LoadedKeys \cup {"k1"} :
          toolcall' = [tool |-> "get_agent_card", id |-> agent_id,
                       response |-> Some(AgentCardResourceGet(agent_cards, agent_id))]
    /\ UNCHANGED restOfTool

NextReadBack == load_agent_cards_from_directory \/ get_agent_card

SpecReadBack == InitLoad /\ [][NextReadBack]_vars

(***************************************************************************)
(* Bulk load of MCP servers: one load_mcp_servers_from_directory call on a *)
(* directory of files whose body cannot be read, is no JSON, fails the     *)
(* validation of MCPServer, or is an MCPServer with an id and a version.   *)
(***************************************************************************)
ServerFile(base, ext, kind, id, version) ==
    [base |-> base, ext |-> ext, kind |-> kind, id |-> id, version |-> version]

\* open, read and MCPServer.model_validate_json of one file: the server, or
\* None when one of the three raises (all three are caught by the loop).
\* MCPServer has no validator on id and version: any string is accepted.
ParseMcpServer(file) ==
    IF file.kind = "unreadable" THEN None
    ELSE IF file.kind = "garbage" THEN None
    ELSE IF file.kind = "invalid" THEN None
    ELSE Some(Server(file.id, file.version, file.base))

\* server_id = f"{mcp_server.id}:{mcp_server.version}"
ServerKey(mcp_server) == Composite(mcp_server.id, mcp_server.version)

\* One iteration of the loop of load_mcp_servers_from_directory
\* (lines 262-280) on the state [servers, count].
LoadServerFile(st, file) ==
    IF ~IsJsonFile(file) THEN st
    ELSE LET parsed == ParseMcpServer(file)
         IN  IF parsed = None THEN st
             ELSE [servers |-> RegisterInto(st.servers, ServerKey(parsed[1]), parsed[1]),
                   count |-> st.count + 1]

\* The loop of load_mcp_servers_from_directory from file i on (line 262).
RECURSIVE LoadServerFilesFrom(_, _, _)
LoadServerFilesFrom(st, files, i) ==
    IF i > Len(files) THEN st
    ELSE LoadServerFilesFrom(LoadServerFile(st, files[i]), files, i + 1)

\* load_mcp_servers_from_directory(directory_path) on the collection d: the
\* collection and the count it returns (lines 257-282).  dir is None when
\* directory_path is no directory.
LoadMcpServersFromDirectory(d, dir) ==
    IF dir = None
    THEN [servers |-> d, count |-> 0]
    ELSE LoadServerFilesFrom([servers |-> d, count |-> 0], dir[1], 1)

ServerFileSet ==
    { ServerFile("a1", ".json", "object", "a", "1"),
      ServerFile("a2", ".json", "object", "a", "2"),
      ServerFile("b1", ".json", "object", "b", "1"),
      ServerFile("ab1", ".json", "object", "a:b", "1"),
      ServerFile("a_b1", ".json", "object", "a", "b:1"),
      ServerFile("bad", ".json", "garbage", "", ""),
      ServerFile("partial", ".json", "invalid", "c", "1"),
      ServerFile("notes", ".txt", "object", "d", "1") }

\* The lists of at most n distinct files: what os.listdir can give.
ServerListings(n) == DistinctLists(ServerFileSet, n)

\* Collections the registry can hold when the load is called.
ServerStoresBefore ==
    { << >>,
      <<[key |-> "a:1", val |-> Server("a", "1", "old")]>> }

restOfServerLoad == <<agent_cards, seenIds, history, ret, threadVars, objectVars, findVars,
                     toolVars>>

InitServerLoad ==
    /\ seenIds = {}
    /\ history = InitHistory
    /\ ret = NoCall
    /\ agent_cards = << >>
    /\ ThreadsIdle
    /\ NoObjects
    /\ \E before \in ServerStoresBefore,
          dir \in {None} \cup {Some(l) : l \in ServerListings(MaxFiles)} :
          /\ mcp_servers = before
          /\ loadcall = [dir |-> dir, before |-> before, returned |-> None]
    /\ findcall = NoFindCall
    /\ toolcall = NoToolCall

load_mcp_servers_from_directory ==
    /\ loadcall.returned = None
    /\ LET st == LoadMcpServersFromDirectory(mcp_servers, loadcall.dir)
       IN  /\ mcp_servers' = st.servers
           /\ loadcall' = [loadcall EXCEPT !.returned = Some(st.count)]
    /\ UNCHANGED restOfServerLoad

NextServerLoad == load_mcp_servers_from_directory

SpecServerLoad == InitServerLoad /\ [][NextServerLoad]_vars

(***************************************************************************)
(* Properties of the MCP server collection, checked under Spec.            *)
(***************************************************************************)

\* C1: after any sequence of register_mcp_server and unregister_mcp_server
\* calls, with any storage keys, no two live entries of the server
\* collection have the same id.
C1_NoTwoEntriesShareAnId ==
    \A i, j \in 1..Len(mcp_servers) :
        i # j => mcp_servers[i].val.id # mcp_servers[j].val.id

\* C2: after a sequence of register_mcp_server calls from the empty store
\* the size of the server collection is the number of distinct ids that
\* were registered.  The sequences looked at are those in which an id may
\* come back under the same or another storage key but no call stores its
\* server over the live entry of another id (the dict keeps one entry per
\* storage key, so such a call drops that other id whatever the scan does).
C2_SizeIsNumberOfDistinctIds ==
    (~history.unregistered /\ ~history.overwrote)
        => Len(mcp_servers) = Cardinality(seenIds)

\* C6: get_mcp_server_by_id(X) returns a server exactly when X is the
\* storage key of an entry or the id or "id:version" of a stored server;
\* when X is a storage key the entry stored under X is the one returned,
\* also when X is the id of another entry; otherwise the server returned
\* is one whose id or "id:version" is X.
C6_LookupByKeyThenIdThenComposite ==
    ret.op = "get_mcp_server_by_id" =>
        LET X == ret.arg
            byKey == {i \in 1..Len(mcp_servers) : mcp_servers[i].key = X}
            byAttr == {i \in 1..Len(mcp_servers) :
                         \/ mcp_servers[i].val.id = X
                         \/ mcp_servers[i].val.id \o ":" \o mcp_servers[i].val.version = X}
        IN  /\ (ret.val = None) <=> (byKey = {} /\ byAttr = {})
            /\ byKey # {} => \E i \in byKey : ret.val = <<mcp_servers[i].val>>
            /\ (byKey = {} /\ byAttr # {}) => \E i \in byAttr : ret.val = <<mcp_servers[i].val>>

\* C6 witness: X is the storage key of one entry and the id of another
\* entry, and the lookup returned the entry stored under X.
C6_Witness ==
    /\ ret.op = "get_mcp_server_by_id"
    /\ \E i, j \in 1..Len(mcp_servers) :
          /\ mcp_servers[i].key = ret.arg
          /\ mcp_servers[i].val.id # ret.arg
          /\ mcp_servers[j].val.id = ret.arg
          /\ mcp_servers[j].key # ret.arg
          /\ j < i
          /\ ret.val = <<mcp_servers[i].val>>

(***************************************************************************)
(* Properties of the concurrent model.                                     *)
(***************************************************************************)

\* The reader is inside its with block.
ReaderInside == pc["r"] \in {"r_body", "r_release"}

\* The writer is inside its with block.
WriterInside == pc["w"] \in {"reg_scan", "reg_delete", "reg_insert", "unreg_body", "w_release"}

LoadBetweenFirstAndLast ==
    /\ pc["l"] # "idle"
    /\ lframe.count >= 1
    /\ \E j \in lframe.idx..Len(lframe.files) :
          IsJsonFile(lframe.files[j]) /\ ParseAgentCard(lframe.files[j]) # None

\* C4: bulk load is mutually exclusive with every other store operation:
\* no list or get runs between the first and the last registration of
\* load_agent_cards_from_directory, and a concurrent list_agent_cards
\* returns the collection as it was when the last load returned, never a
\* part of the directory's valid files.
C4_LoadExcludesOtherOperations ==
    /\ LoadBetweenFirstAndLast => ~ReaderInside
    /\ (pc["r"] = "r_release" /\ rframe.op = "list_agent_cards") =>
          LET c == rframe.committed[1].cards
          IN  rframe.val = [i \in 1..Len(c) |-> c[i].val]

(***************************************************************************)
(* Properties of the object model, checked under SpecObjects.              *)
(***************************************************************************)

\* C5: the descriptors handed out by the reads are copies or views, never
\* aliases of the stored objects: what the store's reads return changes
\* only through register, unregister and load, that is, only in a step
\* that changes the collection itself; a caller assigning to a descriptor
\* it was given changes nothing a later read returns.
C5_ReadsHandOutNoAlias ==
    [][(agent_cards' = agent_cards) => (StoredCards' = StoredCards)]_vars

(***************************************************************************)
(* Properties of the load model, checked under SpecLoad.                   *)
(***************************************************************************)

\* The indices of the valid descriptor files of a listing: .json files
\* whose body is a JSON object with a non-blank name and version.
ValidFiles(files) ==
    {i \in 1..Len(files) :
        /\ files[i].ext = ".json"
        /\ files[i].kind = "object"
        /\ files[i].name \notin {"", " ", "  "}
        /\ files[i].version \notin {"", " ", "  "}}

NameVersionKey(file) == file.name \o ":" \o file.version

\* C7: for a directory whose valid descriptor files have pairwise distinct
\* name:version keys, with any number of malformed files in any order,
\* load_agent_cards_from_directory returns the number v of valid files and
\* registers exactly their cards: each valid card is stored under its key,
\* every other entry of the collection is as before the call, and no
\* entry is added for a failing file.
C7_LoadRegistersExactlyTheValidFiles ==
    (loadcall.returned # None /\ loadcall.dir # None) =>
        LET files == loadcall.dir[1]
            valid == ValidFiles(files)
            keys == {NameVersionKey(files[i]) : i \in valid}
            before == {loadcall.before[i] : i \in 1..Len(loadcall.before)}
            after == {agent_cards[i] : i \in 1..Len(agent_cards)}
        IN  Cardinality(keys) = Cardinality(valid) =>
              /\ loadcall.returned = <<Cardinality(valid)>>
              /\ \A i \in valid :
                    [key |-> NameVersionKey(files[i]),
                     val |-> [name |-> files[i].name, version |-> files[i].version]] \in after
              /\ \A e \in after : e.key \notin keys => e \in before
              /\ \A e \in before : e.key \notin keys => e \in after
              /\ Cardinality(after) = Len(agent_cards)
              /\ Cardinality({e.key : e \in after}) = Cardinality(after)

\* C7 witness: three valid files and a malformed file listed before the
\* last two of them; the load returned 3.
C7_Witness ==
    /\ loadcall.dir # None
    /\ Len(loadcall.dir[1]) = 4
    /\ Cardinality(ValidFiles(loadcall.dir[1])) = 3
    /\ loadcall.dir[1][2].kind = "garbage"
    /\ loadcall.returned = <<3>>
    /\ Len(agent_cards) = 3

(***************************************************************************)
(* Properties of find_a2a_agents, checked under SpecFind.                  *)
(***************************************************************************)

\* The tokens of the names of the skills of a card.
SkillNameTokens(card) ==
    IF card.skills = None THEN {}
    ELSE UNION {Tokens(card.skills[1][k].name) : k \in 1..Len(card.skills[1])}

\* The tokens of the skills of a card; none when it has no skills.
AllSkillTokens(card) ==
    IF card.skills = None THEN {}
    ELSE UNION {SkillTokens(card.skills[1][k]) : k \in 1..Len(card.skills[1])}

\* The tokens of the description of a card; none when it has no description.
DescriptionTokens(card) ==
    IF card.description = None THEN {} ELSE Tokens(card.description[1])

\* The relevance of a card to a query: 3 for each query token in the name,
\* 2 for each in the description, 2 for each in the skills and 1 for each
\* enabled capability named; an absent field contributes nothing.
RelevanceScore(query, card) ==
    LET Q == Tokens(query)
    IN  3 * Cardinality(Q \cap Tokens(card.name))
        + 2 * Cardinality(Q \cap DescriptionTokens(card))
        + 2 * Cardinality(Q \cap AllSkillTokens(card))
        + Cardinality(Q \cap CapTokens(card.capabilities))

\* The cards of the registry that pass the field filters and the predicate
\* of the call, in the store's order.
FilteredCandidates ==
    LET kept == {f \in findcall.filters : f.key # <<"filters">>}
    IN  SelectSeq(ListAgentCards(agent_cards),
                  LAMBDA c : /\ Matches(c, kept)
                             /\ findcall.filter_func # None =>
                                    c.name \in findcall.filter_func[1].accepts)

\* The call has returned and its predicate, if any, did not raise.
FindReturned ==
    /\ findcall.result # None
    /\ findcall.filter_func # None => ~findcall.filter_func[1].raises

\* The trimmed query is empty or exactly "*".
WildcardQuery == StripText(findcall.query) \in {<< >>, <<"*">>}

\* The cards of the returned items, in the order returned.
ReturnedCards ==
    [i \in 1..Len(findcall.result[1]) |-> findcall.result[1][i].of]

\* C8: for a non-wildcard query over cards that carry name, version and
\* skills only, called without filters, predicate or paging, no returned
\* card is one that shares no token with the query, and when a skill name
\* of some card shares a token with the query (and no card name does), the
\* first card returned is such a card.
C8_SkillNameMatchRanksFirst ==
    LET cards == ListAgentCards(agent_cards)
        all == {cards[i] : i \in 1..Len(cards)}
        Q == Tokens(findcall.query)
        hits == {c \in all : Q \cap SkillNameTokens(c) # {}}
        strangers == {c \in all : RelevanceScore(findcall.query, c) = 0}
    IN  ( /\ FindReturned
          /\ ~WildcardQuery
          /\ findcall.filters = {} /\ findcall.filter_func = None
          /\ findcall.offset = 0 /\ findcall.limit = None
          /\ \A c \in all : c.description = None /\ c.capabilities = None
          /\ \A c \in all : Q \cap Tokens(c.name) = {} ) =>
            /\ \A i \in 1..Len(ReturnedCards) : ReturnedCards[i] \notin strangers
            /\ hits # {} => (ReturnedCards # << >> /\ ReturnedCards[1] \in hits)

\* C9: when the trimmed query is empty or "*", the result is the dumps of
\* the cards that pass the field filters and the predicate, in the store's
\* order, cut by offset and limit only: from offset to the end when there
\* is no limit, offset+limit at most otherwise, and with a negative offset
\* or limit still a run of consecutive candidates.
C9_WildcardReturnsEveryFilteredCard ==
    (FindReturned /\ WildcardQuery) =>
        LET candidates == FilteredCandidates
            N == Len(candidates)
            k == findcall.offset
            limit == findcall.limit
        IN  /\ \A i \in 1..Len(findcall.result[1]) :
                  findcall.result[1][i] = ModelDump(ReturnedCards[i])
            /\ (k >= 0 /\ limit = None) => ReturnedCards = SubSeq(candidates, k + 1, N)
            /\ (k >= 0 /\ limit # None /\ limit[1] >= 0) =>
                  ReturnedCards =
                      SubSeq(candidates, k + 1, IF k + limit[1] < N THEN k + limit[1] ELSE N)
            /\ \E a \in 1..(N + 1), b \in 0..N : ReturnedCards = SubSeq(candidates, a, b)

\* C9 witness: the query " * " with a field filter and a predicate over a
\* registry of three cards returned two cards, none of which shares a token
\* with the query.
C9_Witness ==
    /\ FindReturned
    /\ findcall.query = <<" ", "*", " ">>
    /\ findcall.filters # {} /\ findcall.filter_func # None
    /\ Len(agent_cards) = 3
    /\ Len(ReturnedCards) = 2
    /\ \A i \in 1..2 : RelevanceScore(findcall.query, ReturnedCards[i]) = 0

\* C10: for a non-wildcard query called without paging, the cards returned
\* are exactly the filtered candidates whose relevance is positive, each
\* once; so the result is empty when no candidate shares a token with the
\* query.
C10_ResultIsThePositiveCandidates ==
    (FindReturned /\ ~WildcardQuery /\ findcall.offset = 0 /\ findcall.limit = None) =>
        LET candidates == FilteredCandidates
            positive == {candidates[i] : i \in {j \in 1..Len(candidates) :
                             RelevanceScore(findcall.query, candidates[j]) > 0}}
        IN  /\ {ReturnedCards[i] : i \in 1..Len(ReturnedCards)} = positive
            /\ Len(ReturnedCards) = Cardinality(positive)

(***************************************************************************)
(* Properties of score_agent_card and rank_agent_cards, checked under      *)
(* SpecRank.                                                               *)
(***************************************************************************)

\* C11: for every query and card, score_agent_card returns
\* 3*|Q n name| + 2*|Q n description| + 2*|Q n S| + |Q n C|, with Q the set
\* of lowercased word tokens of the query, S the tokens of all the skills
\* and C the lowercased names of the capability flags that are true.
C11_ScoreIsTheWeightedTokenOverlap ==
    toolcall.scored # None =>
        /\ ~toolcall.scored[1].returned.raised
        /\ toolcall.scored[1].returned.score =
               RelevanceScore(toolcall.query, toolcall.scored[1].card)

\* The position of a card in the list given to rank_agent_cards.
InputPosition(card) ==
    CHOOSE i \in 1..Len(toolcall.cards) : toolcall.cards[i] = card

Unpaginated ==
    Execute(agent_cards, findcall.query, findcall.filter_func, None, 0, findcall.filters)

\* C13: with L the ranked or wildcard list of the call and N its length,
\* offset k >= 0 with limit m >= 0 returns the elements k+1 .. min(k+m, N)
\* of L, no limit returns the elements from k+1 on, every result is a run
\* of consecutive elements of L, and paging raises nothing: the call raises
\* internally only when it does so without paging too.
C13_PageIsTheSliceOfTheList ==
    findcall.result # None =>
        LET whole == Unpaginated
            L == whole.returned[1]
            N == Len(L)
            k == findcall.offset
            m == findcall.limit
            page == findcall.result[1]
        IN  /\ (k >= 0 /\ m = None) => page = SubSeq(L, k + 1, N)
            /\ (k >= 0 /\ m # None /\ m[1] >= 0) =>
                  page = SubSeq(L, k + 1, IF k + m[1] < N THEN k + m[1] ELSE N)
            /\ \E a \in 1..(N + 1), b \in 0..N : page = SubSeq(L, a, b)
            /\ findcall.propagated = None
            /\ findcall.raised = whole.raised

\* C13 witness: a ranked list of two cards asked for with offset 1 and
\* limit 2 gave its second card alone.
C13_Witness ==
    /\ findcall.result # None /\ findcall.raised = None
    /\ ~WildcardQuery
    /\ findcall.offset = 1 /\ findcall.limit = Some(2)
    /\ Len(Unpaginated.returned[1]) = 2
    /\ findcall.result[1] = <<Unpaginated.returned[1][2]>>

\* C14: no call of find_a2a_agents ends with an exception; a call whose
\* body raised returned the empty list; and the call changes neither
\* collection of the store.
C14_FindNeverPropagates ==
    /\ [](/\ findcall.propagated = None
          /\ findcall.raised # None => findcall.result = Some(<< >>))
    /\ [][agent_cards' = agent_cards /\ mcp_servers' = mcp_servers]_vars

\* C14 witness: the predicate of the call raised over a registry of cards
\* and the call returned the empty list.
C14_Witness ==
    /\ findcall.raised = Some("RuntimeError")
    /\ findcall.result = Some(<< >>)
    /\ Len(agent_cards) > 0

(***************************************************************************)
(* Properties of find_mcp_servers, checked under SpecFindServers.          *)
(***************************************************************************)

\* An optional argument is given when it is supplied and not empty.
Given(x) == x # None /\ x[1] # << >>

\* The registered servers, in the store's order.
Registered == [i \in 1..Len(mcp_servers) |-> mcp_servers[i].val]

\* The server lists the agent type asked for, whatever the case of letters.
ListsAgentType(server) ==
    \E t \in 1..Len(server.compatibility.agent_types) :
        Lower(server.compatibility.agent_types[t]) = Lower(toolcall.agent_type[1])

\* The server has every capability asked for, whatever the case of letters.
HasRequired(server) ==
    \A r \in 1..Len(toolcall.required_capabilities[1]) :
        \E c \in 1..Len(server.capabilities) :
            Lower(server.capabilities[c]) = Lower(toolcall.required_capabilities[1][r])

\* The servers of the returned items, in the order returned.
ReturnedServers ==
    [i \in 1..Len(toolcall.returned[1]) |-> toolcall.returned[1][i].server.of]

\* C15: when the call returns its whole result (first page, page size above
\* the registry's size), a registered server is returned if and only if
\* (no agent type is given or the server lists it case-insensitively) and
\* (no capabilities are required or the server has all of them
\* case-insensitively).
C15_ReturnedIffBothFactorsPass ==
    (toolcall.returned # None /\ toolcall.page = 1 /\ toolcall.page_size = 20) =>
        \A i \in 1..Len(Registered) :
            (\E j \in 1..Len(ReturnedServers) : ReturnedServers[j] = Registered[i])
            <=> /\ Given(toolcall.agent_type) => ListsAgentType(Registered[i])
                /\ Given(toolcall.required_capabilities) => HasRequired(Registered[i])

\* C15 witness: with agent type NLP-AGENT and capability streaming asked
\* for, srv1 was returned and srv2, which lists the agent type but lacks the
\* capability, was not.
C15_Witness ==
    /\ toolcall.returned # None
    /\ toolcall.agent_type = Some(T_NLP_AGENT)
    /\ toolcall.required_capabilities = Some(<<W_streaming>>)
    /\ \E i, j \in 1..Len(Registered) : Registered[i].id = "srv1" /\ Registered[j].id = "srv2"
    /\ Len(ReturnedServers) = 1 /\ ReturnedServers[1].id = "srv1"

FindServersEnded == toolcall.returned # None \/ toolcall.raised # None

\* C17: a call on an empty registry raises ResourceNotFoundError and
\* returns nothing; a call on a registry with servers raises nothing and
\* returns a list, the empty one when no server is compatible.
C17_EmptyRegistryIsNotEmptyMatch ==
    FindServersEnded =>
        /\ mcp_servers = << >> =>
              (toolcall.raised = Some("ResourceNotFoundError") /\ toolcall.returned = None)
        /\ mcp_servers # << >> =>
              /\ toolcall.raised = None /\ toolcall.returned # None
              /\ (\A i \in 1..Len(Registered) :
                     CalculateCompatibilityScore(Registered[i], toolcall.agent_type,
                                                 toolcall.required_capabilities) = 0)
                    => toolcall.returned = Some(<< >>)

\* C17 witness: a registry of two servers, none listing the agent type
\* asked for, gave the empty list without raising.
C17_Witness ==
    /\ Len(mcp_servers) = 2
    /\ toolcall.agent_type = Some(W_zzz)
    /\ toolcall.returned = Some(<< >>) /\ toolcall.raised = None

\* R: the servers of strictly positive score, sorted by score descending.
PositiveRanked ==
    SortByCompatibility(
        CompatibleFrom(Registered, 1, toolcall.agent_type, toolcall.required_capabilities,
                       << >>), 1, << >>)

\* The pages 1 .. last of the call's query with its page size, one after
\* the other.
RECURSIVE PagesUpTo(_)
PagesUpTo(last) ==
    IF last = 0 THEN << >>
    ELSE PagesUpTo(last - 1) \o
         FindMcpServers(mcp_servers, toolcall.agent_type, toolcall.required_capabilities,
                        last, toolcall.page_size).returned[1]

\* C18: with R the positive-score servers sorted by score descending and N
\* its length, page p >= 1 of size s >= 1 is the elements (p-1)*s+1 ..
\* min(p*s, N) of R, empty past the end, and the pages 1, 2, ... one after
\* the other give R.
C18_PagesAreOneBased ==
    (toolcall.returned # None /\ toolcall.page >= 1 /\ toolcall.page_size >= 1) =>
        LET R == PositiveRanked
            N == Len(R)
            p == toolcall.page
            s == toolcall.page_size
        IN  /\ toolcall.returned[1] =
                   SubSeq(R, (p - 1) * s + 1, IF p * s < N THEN p * s ELSE N)
            /\ (p - 1) * s >= N => toolcall.returned[1] = << >>
            /\ PagesUpTo(N + 1) = R

\* C18 witness: page 2 of size 1 of a result of three servers is its second
\* server alone.
C18_Witness ==
    /\ toolcall.returned # None
    /\ toolcall.page = 2 /\ toolcall.page_size = 1
    /\ Len(PositiveRanked) = 3
    /\ toolcall.returned[1] = <<PositiveRanked[2]>>

(***************************************************************************)
(* Properties of get_agent_details and get_mcp_server_details, checked     *)
(* under SpecDetails.                                                      *)
(***************************************************************************)

\* An identifier is supplied when it is given and not the empty string.
Supplied(x) == x # None /\ x[1] # ""

\* The descriptor the supplied id resolves to, if any: a card by its storage
\* key, a server by the store's lookup by id.
ResolvedById ==
    IF ~Supplied(toolcall.id) THEN None
    ELSE IF toolcall.tool = "get_agent_details"
    THEN LET hits == {i \in 1..Len(agent_cards) : agent_cards[i].key = toolcall.id[1]}
         IN  IF hits = {} THEN None ELSE Some(agent_cards[CHOOSE i \in hits : TRUE].val)
    ELSE GetMcpServerById(mcp_servers, toolcall.id[1])

\* The first descriptor of the supplied name, if any.
ResolvedByName ==
    IF ~Supplied(toolcall.name) THEN None
    ELSE LET d == IF toolcall.tool = "get_agent_details" THEN agent_cards ELSE mcp_servers
             hits == {i \in 1..Len(d) : d[i].val.name = toolcall.name[1]}
         IN  IF hits = {} THEN None
             ELSE Some(d[CHOOSE i \in hits : \A j \in hits : i <= j].val)

DetailsEnded == toolcall.returned # None \/ toolcall.raised # None

ResolvedServer == GetMcpServerById(mcp_servers, toolcall.id)

\* C20: the read of get_mcp_server(id) answers a success envelope carrying
\* the server whenever the id resolves to a registered server, and an error
\* envelope only when the id is malformed or resolves to no server.
C20_SuccessWheneverIdResolves ==
    toolcall.response # None =>
        LET response == toolcall.response[1]
        IN  /\ ResolvedServer # None =>
                  (response.status = "success" /\ response.data = ResolvedServer)
            /\ response.status = "error" =>
                  (~MatchesIdPattern(IdText[toolcall.id]) \/ ResolvedServer = None)

(***************************************************************************)
(* Properties of the paginated resource reads, checked under SpecList.     *)
(***************************************************************************)

\* The values of the collection the read is of, in the store's order.
Stored ==
    LET d == IF toolcall.tool = "list_agent_cards" THEN agent_cards ELSE mcp_servers
    IN  [i \in 1..Len(d) |-> d[i].val]

\* all[offset : offset + limit] for offset >= 0 and limit >= 1.
Window ==
    LET lo == toolcall.offset + 1
        hi == IF toolcall.offset + toolcall.limit < Len(Stored)
              THEN toolcall.offset + toolcall.limit ELSE Len(Stored)
    IN  IF lo > hi THEN << >> ELSE [i \in 1..(hi - lo + 1) |-> Stored[lo + i - 1]]

\* C21: list_agent_cards and list_mcp_servers answer an error envelope
\* without data when limit is outside [1,100] or offset < 0, and otherwise
\* a success envelope with data = all[offset : offset+limit], total = the
\* number of stored entries, per_page = limit and
\* page = (offset div limit) + 1; no step changes the store.
C21_ListEnvelope ==
    /\ [](toolcall.response # None =>
            LET response == toolcall.response[1]
                limit == toolcall.limit
                offset == toolcall.offset
            IN  IF limit < 1 \/ limit > 100 \/ offset < 0
                THEN response.status = "error" /\ response.data = None
                ELSE /\ response.status = "success"
                     /\ response.data = Some(Window)
                     /\ response.meta[1].total = Len(Stored)
                     /\ response.meta[1].per_page = limit
                     /\ response.meta[1].page = (offset \div limit) + 1)
    /\ [][agent_cards' = agent_cards /\ mcp_servers' = mcp_servers]_vars

\* C21 witness: a read of the servers with limit 2 and offset 1 over three
\* stored servers answered the second and third on page 1.
C21_Witness ==
    /\ toolcall.tool = "list_mcp_servers"
    /\ toolcall.limit = 2 /\ toolcall.offset = 1
    /\ Len(mcp_servers) = 3
    /\ toolcall.response # None
    /\ toolcall.response[1].data = Some(<<mcp_servers[2].val, mcp_servers[3].val>>)
    /\ toolcall.response[1].meta[1] = [page |-> 1, per_page |-> 2, total |-> 3]

(***************************************************************************)
(* Properties of the unregister calls.                                     *)
(***************************************************************************)

\* d without its i-th entry.
WithoutEntry(d, i) == [j \in 1..(Len(d) - 1) |-> IF j < i THEN d[j] ELSE d[j + 1]]

\* The positions of the entries of the server collection whose id or
\* id:version is X.
EntriesNamed(X) ==
    {i \in 1..Len(mcp_servers) :
        \/ mcp_servers[i].val.id = X
        \/ Composite(mcp_servers[i].val.id, mcp_servers[i].val.version) = X}

\* The effect the claim gives unregister_mcp_server(X).
UnregisterServerEffect(X) ==
    /\ agent_cards' = agent_cards
    /\ Len(mcp_servers') >= Len(mcp_servers) - 1
    /\ IF \E i \in 1..Len(mcp_servers) : mcp_servers[i].key = X
       THEN \E i \in 1..Len(mcp_servers) :
               mcp_servers[i].key = X /\ mcp_servers' = WithoutEntry(mcp_servers, i)
       ELSE IF EntriesNamed(X) # {}
       THEN \E i \in EntriesNamed(X) : mcp_servers' = WithoutEntry(mcp_servers, i)
       ELSE mcp_servers' = mcp_servers

\* The effect the claim gives unregister_agent_card(K).
UnregisterCardEffect(K) ==
    /\ mcp_servers' = mcp_servers
    /\ IF \E i \in 1..Len(agent_cards) : agent_cards[i].key = K
       THEN \E i \in 1..Len(agent_cards) :
               agent_cards[i].key = K /\ agent_cards' = WithoutEntry(agent_cards, i)
       ELSE agent_cards' = agent_cards

\* C22, the agent-card half: unregister_agent_card(K) removes exactly the
\* entry under key K or changes nothing.
UnregisterCardRemovesTheKey ==
    [][\A K \in CardKeys : obj_unregister_agent_card(K) => UnregisterCardEffect(K)]_vars

\* C22: unregister_mcp_server(X) removes the entry under key X when there is
\* one, otherwise an entry whose id or id:version is X, otherwise nothing;
\* it removes at most one server entry and leaves the agent cards alone;
\* unregister_agent_card(K) removes exactly the entry under key K or
\* changes nothing.
C22_UnregisterRemovesKeyThenAttributeMatch ==
    /\ [][\A X \in LookupArgs : unregister_mcp_server(X) => UnregisterServerEffect(X)]_vars
    /\ UnregisterCardRemovesTheKey

(***************************************************************************)
(* Properties of the construction of Capabilities, checked under           *)
(* SpecCapabilities.                                                       *)
(***************************************************************************)

\* C23: over every combination of the three flags being absent, null, false
\* or true, the construction of Capabilities fails validation when no flag
\* is true and succeeds when at least one is.
C23_FailsIffNoFlagIsTrue ==
    toolcall.result # None =>
        LET anyTrue == \/ toolcall.streaming = "true"
                       \/ toolcall.pushNotifications = "true"
                       \/ toolcall.stateTransitionHistory = "true"
        IN  (toolcall.result[1].raised # None) <=> ~anyTrue

\* The part of C23 the code keeps: a construction that supplies
\* stateTransitionHistory fails exactly when no flag is true, and every
\* construction with a true flag succeeds.
CapabilitiesCheckedWhenLastFlagSupplied ==
    toolcall.result # None =>
        LET anyTrue == \/ toolcall.streaming = "true"
                       \/ toolcall.pushNotifications = "true"
                       \/ toolcall.stateTransitionHistory = "true"
        IN  /\ anyTrue => toolcall.result[1].raised = None
            /\ toolcall.stateTransitionHistory # "absent" =>
                  ((toolcall.result[1].raised # None) <=> ~anyTrue)

(***************************************************************************)
(* Properties of the construction of ServerConnection, checked under       *)
(* SpecConnection.                                                         *)
(***************************************************************************)

\* A field of the input is present when it is not None.
Present(x) == x # None

\* C24: a connection with transport streamable_http is accepted only if
\* endpoint is present, auth_method is non-empty and command, args and
\* required_env are all absent; one with transport stdio only if command is
\* non-empty, args is a non-empty list and endpoint and headers are absent;
\* every other combination of fields is a validation failure.
C24_ConnectionIsATaggedUnion ==
    toolcall.result # None =>
        LET c == toolcall.input
            accepted == toolcall.result[1].raised = None
            httpShape == /\ Present(c.endpoint)
                         /\ Present(c.auth_method) /\ c.auth_method[1] # ""
                         /\ ~Present(c.command) /\ ~Present(c.args)
                         /\ ~Present(c.required_env)
            stdioShape == /\ Present(c.command) /\ c.command[1] # ""
                          /\ Present(c.args) /\ c.args[1] # << >>
                          /\ ~Present(c.endpoint) /\ ~Present(c.headers)
        IN  /\ accepted => c.transport \in {"streamable_http", "stdio"}
            /\ (accepted /\ c.transport = "streamable_http") => httpShape
            /\ (accepted /\ c.transport = "stdio") => stdioShape
            /\ accepted => toolcall.result[1].value = Some(c)

\* C24 witness: a stdio connection with a command, arguments and
\* required_env was constructed and accepted.
C24_Witness ==
    /\ toolcall.result # None
    /\ toolcall.input.transport = "stdio"
    /\ toolcall.input.command = Some("npx")
    /\ toolcall.input.args = Some(<<"-y">>)
    /\ toolcall.input.required_env = Some(<<"TOKEN">>)
    /\ toolcall.result[1].raised = None

(***************************************************************************)
(* Properties of the Helm write tools, checked under SpecHelm.             *)
(***************************************************************************)

\* The call has ended, with the record of what it did.
HelmEnded == toolcall.tool \in {"install_chart", "upgrade_release", "uninstall_release"}
             /\ toolcall.result # None

\* The subprocesses the call started.
HelmRuns ==
    SelectSeq(toolcall.result[1].events, LAMBDA e : e.kind = "run")

\* A subprocess of the call raised: the outcome the environment gives the
\* last subprocess the call started is not "ok".
SubprocessRaised ==
    /\ HelmRuns # << >>
    /\ LET last == HelmRuns[Len(HelmRuns)].args
       IN  IF Len(last) >= 3 /\ last[2] = TextOf["repo"]
           THEN IF last[3] = TextOf["add"] THEN toolcall.env.repo_add # "ok"
                ELSE toolcall.env.repo_update # "ok"
           ELSE toolcall.env.run # "ok"

\* C25: when a helm subprocess raises an exception, whichever it is,
\* install_chart, upgrade_release and uninstall_release return their output
\* with isError true, status "error" and a text, and propagate nothing.
C25_SubprocessFailureIsReturned ==
    (HelmEnded /\ SubprocessRaised) =>
        /\ toolcall.result[1].raised = None
        /\ toolcall.result[1].returned # None
        /\ toolcall.result[1].returned[1].isError
        /\ toolcall.result[1].returned[1].status = "error"

\* The part of C25 the code keeps: a subprocess that ends with a non-zero
\* status (CalledProcessError), and any failure of helm repo add or helm
\* repo update, is returned as an error output.
CalledProcessErrorIsReturned ==
    (HelmEnded /\ SubprocessRaised /\ toolcall.result[1].raised # None) =>
        /\ toolcall.env.run = "OSError"
        /\ HelmRuns[Len(HelmRuns)].args[2] # TextOf["repo"]

\* The events of the call, in order.
HelmEvents == toolcall.result[1].events

\* The words of a command that the tool itself writes.
HelmWords == {TextOf["helm"], TextOf["repo"], TextOf["add"], TextOf["update"]}

\* The i-th event starts a subprocess whose arguments from the caller were
\* all in a command checked before it and found free of patterns.
StartedAfterCheck(i) ==
    \E j \in 1..(i - 1) :
        /\ HelmEvents[j].kind = "check"
        /\ CheckForDangerousPatterns(HelmEvents[j].args) = None
        /\ \A k \in 1..Len(HelmEvents[i].args) :
              \/ HelmEvents[i].args[k] \in HelmWords
              \/ \E m \in 1..Len(HelmEvents[j].args) :
                    HelmEvents[j].args[m] = HelmEvents[i].args[k]

\* C30: in install_chart and upgrade_release no helm subprocess, helm repo
\* add and helm repo update included, is started with arguments of the
\* caller that have not passed check_for_dangerous_patterns, and when the
\* check finds a pattern no subprocess has been run at all.
C30_CheckPrecedesEverySubprocess ==
    (HelmEnded /\ toolcall.tool \in {"install_chart", "upgrade_release"}) =>
        /\ \A i \in 1..Len(HelmEvents) :
              HelmEvents[i].kind = "run" => StartedAfterCheck(i)
        /\ (\E j \in 1..Len(HelmEvents) :
               /\ HelmEvents[j].kind = "check"
               /\ CheckForDangerousPatterns(HelmEvents[j].args) # None)
           => HelmRuns = << >>

\* The part of C30 the code keeps: the helm install or helm upgrade command
\* itself is started only after its own arguments passed the check, and a
\* call without repo_url starts nothing before the check.
FinalCommandIsChecked ==
    (HelmEnded /\ toolcall.tool \in {"install_chart", "upgrade_release"}) =>
        /\ \A i \in 1..Len(HelmEvents) :
              (HelmEvents[i].kind = "run" /\ HelmEvents[i].args[2] # TextOf["repo"])
                  => /\ i > 1
                     /\ HelmEvents[i - 1] = CheckEvent(HelmEvents[i].args)
                     /\ CheckForDangerousPatterns(HelmEvents[i].args) = None
        /\ toolcall.in.repo_url = None =>
              \A i \in 1..Len(HelmEvents) :
                  HelmEvents[i].kind = "run" => StartedAfterCheck(i)

(***************************************************************************)
(* Properties of the store-wide lock, checked under SpecLockFair.          *)
(***************************************************************************)

\* C26: every store operation ends and releases the lock: whatever the
\* interleaving of register, unregister, get, find and list calls, with a
\* list predicate that calls the store on the same thread or raises, a call
\* that has started eventually returns, and when no call is running the
\* lock is free.
C26_EveryCallReturnsAndReleases ==
    /\ \A t \in LockThreads : (pc[t] # "idle") ~> (pc[t] = "idle")
    /\ []((\A t \in LockThreads : pc[t] = "idle") => lock = Unlocked)
    /\ [](lock.owner # "none" => (lock.count >= 1 /\ pc[lock.owner] # "idle"))

\* C26 witness: a list whose predicate calls the store holds the lock twice
\* while the other thread waits for it.
C26_Witness ==
    /\ lock = [owner |-> "r", count |-> 2]
    /\ pc["r"] = "nested_body"
    /\ pc["w"] = "acquire"

(***************************************************************************)
(* Properties of reading back a loaded agent card, checked under           *)
(* SpecReadBack.                                                           *)
(***************************************************************************)

\* C27: every agent card load_agent_cards_from_directory registered is read
\* back by get_agent_card: a read with the storage key name:version of a
\* loaded card answers a success envelope whose data is the card stored
\* under that key.
C27_LoadedCardIsReadBack ==
    (toolcall # NoToolCall /\ toolcall.tool = "get_agent_card"
        /\ loadcall.dir # None
        /\ \E i \in 1..Len(loadcall.dir[1]) :
              /\ i \in ValidFiles(loadcall.dir[1])
              /\ toolcall.id = NameVersionKey(loadcall.dir[1][i]))
    => /\ toolcall.response[1].status = "success"
       /\ \E i \in 1..Len(agent_cards) :
             /\ agent_cards[i].key = toolcall.id
             /\ toolcall.response[1].data = Some(agent_cards[i].val)

\* What the read answers instead: every key the loader derives holds a
\* colon, so each such read is refused as malformed.
LoadedKeyIsRefused ==
    (toolcall # NoToolCall /\ toolcall.tool = "get_agent_card" /\ toolcall.id # "k1")
    => toolcall.response[1] = ErrorResponse("Invalid agent_id format")

(***************************************************************************)
(* Properties of the score of find_mcp_servers, checked under              *)
(* SpecFindServers.                                                        *)
(***************************************************************************)

\* The one positive score of a call: it depends on which of agent_type and
\* required_capabilities were given, and on nothing else.
ScoreOfTheCall ==
    LET typeAsked == OptTruthy(toolcall.agent_type)
        capsAsked == OptTruthy(toolcall.required_capabilities)
    IN  IF typeAsked /\ capsAsked THEN ScoreUnit
        ELSE IF typeAsked \/ capsAsked
        THEN ((ScoreUnit + PartialBase) * ScoreUnit) \div (2 * ScoreUnit)
        ELSE PartialBase

\* The place of the server with this id in the store.
StorePlace(id) == CHOOSE i \in 1..Len(mcp_servers) : mcp_servers[i].val.id = id

\* C28: within one find_mcp_servers response all returned servers carry the
\* same compatibility_score: the score of a stored server is 0 or the one
\* positive value fixed by which of the two factors were given, so the
\* descending sort reorders nothing and the servers are returned in the
\* order of the store.
C28_OneScorePerResponse ==
    (toolcall.tool = "find_mcp_servers" /\ toolcall.returned # None)
    => LET page == toolcall.returned[1]
       IN  /\ \A i \in 1..Len(mcp_servers) :
                 CalculateCompatibilityScore(mcp_servers[i].val, toolcall.agent_type,
                                             toolcall.required_capabilities)
                     \in {0, ScoreOfTheCall}
           /\ \A i \in 1..Len(page) : page[i].compatibility_score = ScoreOfTheCall
           /\ \A i, j \in 1..Len(page) :
                 i < j => StorePlace(page[i].server.of.id) < StorePlace(page[j].server.of.id)

\* C28 witness: a call that named capabilities returned two servers or more
\* and left out a server that is stored before the last one returned.
C28_Witness ==
    /\ toolcall.tool = "find_mcp_servers" /\ toolcall.returned # None
    /\ OptTruthy(toolcall.required_capabilities)
    /\ Len(toolcall.returned[1]) >= 2
    /\ \E k \in 1..Len(mcp_servers) :
          /\ k < StorePlace(toolcall.returned[1][Len(toolcall.returned[1])].server.of.id)
          /\ \A i \in 1..Len(toolcall.returned[1]) :
                toolcall.returned[1][i].server.of.id # mcp_servers[k].val.id

(***************************************************************************)
(* Properties of the bulk load of MCP servers, checked under               *)
(* SpecServerLoad.                                                         *)
(***************************************************************************)

\* The places of the files that are registered: .json files that parse and
\* validate.
ValidServerFiles(files) ==
    {i \in 1..Len(files) : IsJsonFile(files[i]) /\ ParseMcpServer(files[i]) # None}

\* The server ids among the valid files.
ValidServerIds(files) == {files[i].id : i \in ValidServerFiles(files)}

\* A load into an empty store has returned.
LoadedIntoEmptyStore ==
    loadcall.returned # None /\ loadcall.dir # None /\ loadcall.before = << >>

\* C29: the count load_mcp_servers_from_directory returns is the number of
\* files that parsed, validated and were registered, not the number of
\* entries added: after a load into an empty store the collection holds at
\* most that many entries and exactly one entry per distinct server id
\* among the valid files.
C29_CountsFilesOneEntryPerId ==
    LoadedIntoEmptyStore
    => /\ loadcall.returned[1] = Cardinality(ValidServerFiles(loadcall.dir[1]))
       /\ Len(mcp_servers) <= loadcall.returned[1]
       /\ Len(mcp_servers) = Cardinality(ValidServerIds(loadcall.dir[1]))
       /\ \A id \in ValidServerIds(loadcall.dir[1]) :
             Cardinality({i \in 1..Len(mcp_servers) : mcp_servers[i].val.id = id}) = 1

\* The ids and versions of the model that hold no colon.
ColonFree == {"a", "b", "c", "d", "1", "2", ""}

\* What the load keeps: the count is the number of valid files and bounds
\* the number of entries; there is exactly one entry per distinct id when no
\* id and no version of a valid file holds a colon.
CountsFilesOneEntryPerPlainId ==
    LoadedIntoEmptyStore
    => /\ loadcall.returned[1] = Cardinality(ValidServerFiles(loadcall.dir[1]))
       /\ Len(mcp_servers) <= loadcall.returned[1]
       /\ (\A i \in ValidServerFiles(loadcall.dir[1]) :
              loadcall.dir[1][i].id \in ColonFree /\ loadcall.dir[1][i].version \in ColonFree)
          => /\ Len(mcp_servers) = Cardinality(ValidServerIds(loadcall.dir[1]))
             /\ \A id \in ValidServerIds(loadcall.dir[1]) :
                   Cardinality({i \in 1..Len(mcp_servers) : mcp_servers[i].val.id = id}) = 1

\* Two valid files with one id and two versions, loaded alone into an empty
\* store, raise the count by 2 and leave one entry.
SameIdTwoVersionsCountTwoEntryOne ==
    (LoadedIntoEmptyStore
        /\ Len(loadcall.dir[1]) = 2
        /\ ValidServerFiles(loadcall.dir[1]) = {1, 2}
        /\ loadcall.dir[1][1].id = loadcall.dir[1][2].id
        /\ loadcall.dir[1][1].version # loadcall.dir[1][2].version)
    => loadcall.returned[1] = 2 /\ Len(mcp_servers) = 1

====
